---- MODULE Spec2Model ----
(***************************************************************************)
(* A model of the ingestion CLI (scripts/scrape-menopause-sources.ts, the  *)
(* multi-collection variant with the ScrapeTracker), of the scraper        *)
(* services it drives (services/scraper) and of the multi-collection       *)
(* RAGService behind the chat routes.                                      *)
(***************************************************************************)
EXTENDS Integers, Sequences, FiniteSets, TLC

(***************************************************************************)
(* Bounds of the model.                                                    *)
(***************************************************************************)
\* number of CLI processes started one after another
MaxRuns == 2
\* chunks of the page behind the menopause source
FirstPage == 252

\* method calls on a tracker or detector object, the longest source list passed to them,
\* and the largest documentCount
MaxCalls == 2
MaxList == 2
MaxCount == 1

\* requests the server gets
MaxRequests == 2
MaxMethods == 3
MaxFragments == 3

\* sources passed to scrapeMultipleURLs, and chunks passed to removeDuplicates
MaxUrls == 3
MaxDocs == 3

\* chunks a similarity search of getRelevantDocuments returns
MaxResults == 2

\* the largest number of sources a request asks for
MaxK == 5

\* throttle calls on a RateLimiter, and steps of its clock
MaxThrottles == 3
MaxTicks == 3

(***************************************************************************)
(* Program constants.                                                      *)
(***************************************************************************)
BATCH_SIZE == 100

(***************************************************************************)
(* Generic helpers on sequences (the Array methods).                       *)
(***************************************************************************)
Range(s) == {s[i] : i \in DOMAIN s}

\* Array.prototype.includes
Includes(s, x) == \E i \in DOMAIN s : s[i] = x

\* Array.prototype.slice(from, to), zero-based, end exclusive, clamped
Slice(s, from, to) ==
  LET hi == IF to > Len(s) THEN Len(s) ELSE to
  IN  IF from >= hi THEN <<>> ELSE SubSeq(s, from + 1, hi)

\* [...new Set(s)]: the distinct elements in order of first insertion
RECURSIVE SetSpread(_)
SetSpread(s) ==
  IF s = <<>> THEN <<>>
  ELSE LET init == SetSpread(SubSeq(s, 1, Len(s) - 1))
           last == s[Len(s)]
       IN  IF Includes(init, last) THEN init ELSE Append(init, last)

Min(a, b) == IF a < b THEN a ELSE b

\* the concatenation of a sequence of sequences (Array.prototype.flat)
RECURSIVE Concat(_)
Concat(texts) == IF texts = <<>> THEN <<>> ELSE Head(texts) \o Concat(Tail(texts))

(***************************************************************************)
(* Text.  A string is kept run-length encoded: a sequence of runs          *)
(* [c |-> character, n |-> repetitions], n > 0, adjacent runs of different *)
(* characters.  The results of the keyword search and of the boilerplate   *)
(* regular expressions are carried with the text.                          *)
(***************************************************************************)
RECURSIVE StrLen(_)
StrLen(t) == IF t = <<>> THEN 0 ELSE t[1].n + StrLen(Tail(t))

\* String.prototype.substring(0, k)
RECURSIVE Substring0(_, _)
Substring0(t, k) ==
  IF t = <<>> \/ k <= 0 THEN <<>>
  ELSE IF t[1].n >= k THEN <<[c |-> t[1].c, n |-> k]>>
       ELSE <<t[1]>> \o Substring0(Tail(t), k - t[1].n)

IsSpace(ch) == ch = " "

RECURSIVE TrimStart(_)
TrimStart(t) ==
  IF t = <<>> THEN <<>>
  ELSE IF IsSpace(t[1].c) THEN TrimStart(Tail(t)) ELSE t

RECURSIVE TrimEnd(_)
TrimEnd(t) ==
  IF t = <<>> THEN <<>>
  ELSE IF IsSpace(t[Len(t)].c) THEN TrimEnd(SubSeq(t, 1, Len(t) - 1)) ELSE t

\* String.prototype.trim
Trim(t) == TrimEnd(TrimStart(t))

(***************************************************************************)
(* The source registry (config/*-sources.ts), cut down to short lists, and *)
(* the pages behind the URLs as the loader and the text splitter deliver   *)
(* them: a list of chunk texts per URL.                                    *)
(***************************************************************************)
menopauseSources ==
  << [url |-> "m1", metadata |-> [organization |-> "The Menopause Society"]] >>

breastCancerSources ==
  << [url |-> "b1", metadata |-> [organization |-> "National Cancer Institute (NCI)"]],
     [url |-> "b2", metadata |-> [organization |-> "American Cancer Society"]] >>

pcosSources ==
  << [url |-> "p1", metadata |-> [organization |-> "PCOS Society"]],
     [url |-> "p2", metadata |-> [organization |-> "Endocrine Society"]] >>

Digit(d) == IF d = 0 THEN "0" ELSE IF d = 1 THEN "1" ELSE IF d = 2 THEN "2" ELSE "3"

\* an ordinary chunk of more than 500 characters with a medical term; chunks
\* of different k < 400 differ within their first 200 characters
Ordinary(ch, k) ==
  [text |-> <<[c |-> ch, n |-> (k % 100) + 1], [c |-> Digit(k \div 100), n |-> 1],
              [c |-> "y", n |-> 500]>>,
   hasTerms |-> TRUE, hasBoilerplate |-> FALSE]

\* Ordinary(ch, k) with a different end, after the first 200 characters
Variant(ch, k) ==
  [text |-> Ordinary(ch, k).text \o <<[c |-> "v", n |-> 7]>>,
   hasTerms |-> TRUE, hasBoilerplate |-> FALSE]

\* a short chunk without any medical term
Junk == [text |-> <<[c |-> "q", n |-> 50]>>, hasTerms |-> FALSE, hasBoilerplate |-> FALSE]

\* a cookie banner
Banner == [text |-> <<[c |-> "p", n |-> 300]>>, hasTerms |-> FALSE, hasBoilerplate |-> TRUE]

\* the number of chunks of the page behind url, and the text of its k-th chunk
PageLen(url) ==
  CASE url = "m1" -> FirstPage
    [] url = "b1" -> BATCH_SIZE
    [] url = "b2" -> 2
    [] url = "p1" -> 4
    [] url = "p2" -> 2

PageText(url, k) ==
  CASE url = "m1" -> IF k = 2 THEN Junk
                     ELSE IF k = 3 THEN Variant("x", 1) ELSE Ordinary("x", k)
    [] url = "b1" -> Ordinary("b", k)
    [] url = "b2" -> IF k = 1 THEN Junk ELSE Ordinary("c", k)
    [] url = "p1" ->
         IF k = 1 THEN Banner
         ELSE IF k = 2
         THEN [text |-> <<[c |-> "p", n |-> 600]>>,
               hasTerms |-> TRUE, hasBoilerplate |-> FALSE]
         ELSE IF k = 3
         THEN [text |-> <<[c |-> " ", n |-> 1], [c |-> "w", n |-> 150]>>,
               hasTerms |-> TRUE, hasBoilerplate |-> FALSE]
         ELSE [text |-> <<[c |-> "w", n |-> 150], [c |-> " ", n |-> 3]>>,
               hasTerms |-> TRUE, hasBoilerplate |-> FALSE]
    [] url = "p2" -> IF k = 1 THEN Banner ELSE Junk

AllSources == menopauseSources \o breastCancerSources \o pcosSources

\* the metadata the registry gives for url
SourceMetadata(url) ==
  (CHOOSE source \in Range(AllSources) : source.url = url).metadata

(***************************************************************************)
(* services/scraper: MenopauseSourceScraper, ContentValidator,             *)
(* DuplicateDetector.  Lists of documents hold references <<url, k>> to    *)
(* Document objects: the k-th chunk of the page of url.  Document(ref) is  *)
(* the object behind a reference.  Times (scrapedAt, timestamp) are kept   *)
(* as the one value "now".                                                 *)
(***************************************************************************)
\* lines 28-38: the chunk with the source's metadata, source and scrapedAt
Document(ref) ==
  [pageContent |-> PageText(ref[1], ref[2]),
   metadata |-> [organization |-> SourceMetadata(ref[1]).organization,
                 source |-> ref[1], scrapedAt |-> "now"]]

\* scrapeURL: `loaded` is whether loader.load() and splitDocuments returned
\* (TRUE) or threw (FALSE)
scrapeURL(url, loaded) ==
  IF loaded THEN [k \in 1..PageLen(url) |-> <<url, k>>] ELSE <<>>

\* a metadata field that is present and truthy
Truthy(metadata, field) == field \in DOMAIN metadata /\ metadata[field] /= ""

\* validateContent whose boilerplate check leaves the length out
validateContentAnyLength(doc) ==
  LET length == StrLen(doc.pageContent.text)
      short == length < 100
      noTerms == ~doc.pageContent.hasTerms
      boiler == doc.pageContent.hasBoilerplate
      noOrg == ~Truthy(doc.metadata, "organization")
      noSource == ~Truthy(doc.metadata, "source")
      score == 100 - (IF short THEN 30 ELSE 0) - (IF noTerms THEN 40 ELSE 0)
                   - (IF boiler THEN 50 ELSE 0) - (IF noOrg THEN 20 ELSE 0)
                   - (IF noSource THEN 20 ELSE 0)
      issues == (IF short THEN <<"Content too short (< 100 chars)">> ELSE <<>>)
             \o (IF noTerms THEN <<"No menopause-related medical terms found">> ELSE <<>>)
             \o (IF boiler THEN <<"Appears to be navigation/boilerplate content">> ELSE <<>>)
             \o (IF noOrg THEN <<"Missing organization metadata">> ELSE <<>>)
             \o (IF noSource THEN <<"Missing source URL">> ELSE <<>>)
  IN  [isValid |-> score >= 50, issues |-> issues, score |-> score]

validateContent(doc) ==
  LET length == StrLen(doc.pageContent.text)
      short == length < 100
      noTerms == ~doc.pageContent.hasTerms
      boiler == doc.pageContent.hasBoilerplate /\ length < 500
      noOrg == ~Truthy(doc.metadata, "organization")
      noSource == ~Truthy(doc.metadata, "source")
      score == 100 - (IF short THEN 30 ELSE 0) - (IF noTerms THEN 40 ELSE 0)
                   - (IF boiler THEN 50 ELSE 0) - (IF noOrg THEN 20 ELSE 0)
                   - (IF noSource THEN 20 ELSE 0)
      issues == (IF short THEN <<"Content too short (< 100 chars)">> ELSE <<>>)
             \o (IF noTerms THEN <<"No menopause-related medical terms found">> ELSE <<>>)
             \o (IF boiler THEN <<"Appears to be navigation/boilerplate content">> ELSE <<>>)
             \o (IF noOrg THEN <<"Missing organization metadata">> ELSE <<>>)
             \o (IF noSource THEN <<"Missing source URL">> ELSE <<>>)
  IN  [isValid |-> score >= 50, issues |-> issues, score |-> score]

IsValidDoc(ref) == validateContent(Document(ref)).isValid

filterValidDocuments(docs) == SelectSeq(docs, IsValidDoc)

\* contentHash without the trim
contentHashUntrimmed(doc) == Substring0(doc.pageContent.text, 200)

\* the "hash" of removeDuplicates: the first 200 characters, trimmed
contentHash(doc) == Trim(Substring0(doc.pageContent.text, 200))

\* one pass of the for-of loop of removeDuplicates: st = [seen, unique] (the
\* document and its hash are bound as values, so that each is computed once)
dedupStep(st, doc) ==
  CHOOSE next \in {IF h \notin st.seen
                   THEN [seen |-> st.seen \cup {h}, unique |-> Append(st.unique, doc)]
                   ELSE st :
                     h \in {contentHash(d) : d \in {Document(doc)}}} : TRUE

\* the loop over docs[lo..hi] from state st, in list order (the range is
\* halved so that the evaluation does not nest once per document; the middle
\* and the state after the first half are bound as values, so that each is
\* computed once)
RECURSIVE dedupLoop(_, _, _, _)
dedupLoop(docs, lo, hi, st) ==
  IF lo > hi THEN st
  ELSE IF lo = hi THEN dedupStep(st, docs[lo])
  ELSE CHOOSE r \in UNION {{dedupLoop(docs, mid + 1, hi, half) :
                              half \in {dedupLoop(docs, lo, mid, st)}} :
                             mid \in {(lo + hi) \div 2}} : TRUE

removeDuplicates(docs) ==
  CHOOSE unique \in {dedupLoop(list, 1, Len(list), [seen |-> {}, unique |-> <<>>]).unique :
                       list \in {docs}} : TRUE

(***************************************************************************)
(* ScrapeTracker.  The tracking data are two objects keyed by collection   *)
(* name; an absent key is a collection outside the DOMAIN.                 *)
(***************************************************************************)
EmptyTracking == [lastScraped |-> <<>>, scrapedUrls |-> <<>>]

\* obj[key] = value on an object kept as a function
SetKey(obj, key, value) == [k \in DOMAIN obj \cup {key} |-> IF k = key THEN value ELSE obj[k]]

\* delete obj[key]
DeleteKey(obj, key) == [k \in DOMAIN obj \ {key} |-> obj[k]]

\* JSON.stringify(data, null, 2): the text lists, per object, its key/value pairs
JSONstringify(data) ==
  [lastScraped |-> {<<k, data.lastScraped[k]>> : k \in DOMAIN data.lastScraped},
   scrapedUrls |-> {<<k, data.scrapedUrls[k]>> : k \in DOMAIN data.scrapedUrls}]

\* JSON.parse of such a text
ParseObject(pairs) ==
  [k \in {p[1] : p \in pairs} |-> (CHOOSE p \in pairs : p[1] = k)[2]]

JSONparse(text) ==
  [lastScraped |-> ParseObject(text.lastScraped),
   scrapedUrls |-> ParseObject(text.scrapedUrls)]

\* the tracking file: whether it exists, its text, and whether the text is
\* all of what the last writeFileSync was given (a text cut short is no JSON)
NoFile == [exists |-> FALSE, text |-> JSONstringify(EmptyTracking), whole |-> TRUE]

\* loadTracking: the parsed file; empty tracking without a file, or when
\* JSON.parse throws
loadTracking(f) == IF f.exists /\ f.whole THEN JSONparse(f.text) ELSE EmptyTracking

\* saveTracking that writes scrapedUrls and leaves lastScraped out
saveTrackingUrlsOnly(data) ==
  [exists |-> TRUE,
   text |-> JSONstringify([lastScraped |-> <<>>, scrapedUrls |-> data.scrapedUrls]),
   whole |-> TRUE]

\* saveTracking: writeFileSync of the whole data
saveTracking(data) == [exists |-> TRUE, text |-> JSONstringify(data), whole |-> TRUE]

\* the file when the process is killed inside writeFileSync: opened with
\* flag 'w', which empties it, and written in part
tornWrite(data) == [exists |-> TRUE, text |-> JSONstringify(EmptyTracking), whole |-> FALSE]

SourceUrl(source) == source.url

\* sources.map((s) => s.url)
SourceUrls(sources) == [i \in DOMAIN sources |-> SourceUrl(sources[i])]

ScrapedUrlsOf(data, collection) ==
  IF collection \in DOMAIN data.scrapedUrls THEN data.scrapedUrls[collection] ELSE <<>>

\* getUnscrapedSources that forgets the tracker
getUnscrapedSourcesUntracked(data, collection, sources) == sources

getUnscrapedSources(data, collection, sources) ==
  LET scrapedUrls == ScrapedUrlsOf(data, collection)
      NotScraped(source) == ~Includes(scrapedUrls, source.url)
  IN  SelectSeq(sources, NotScraped)

\* markAsScraped that sets scrapedUrls[collection] to the URLs of this call
markAsScrapedReplace(data, collection, sources, documentCount) ==
  LET urls == SourceUrls(sources)
  IN  [lastScraped |-> SetKey(data.lastScraped, collection,
                              [timestamp |-> "now", urlCount |-> Len(urls),
                               documentCount |-> documentCount]),
       scrapedUrls |-> SetKey(data.scrapedUrls, collection, SetSpread(urls))]

\* markAsScraped that appends the URLs without the Set
markAsScrapedAppend(data, collection, sources, documentCount) ==
  LET urls == SourceUrls(sources)
  IN  [lastScraped |-> SetKey(data.lastScraped, collection,
                              [timestamp |-> "now", urlCount |-> Len(urls),
                               documentCount |-> documentCount]),
       scrapedUrls |-> SetKey(data.scrapedUrls, collection,
                              ScrapedUrlsOf(data, collection) \o urls)]

\* markAsScraped that counts every URL tracked so far as this call's
markAsScrapedTotal(data, collection, sources, documentCount) ==
  LET urls == SourceUrls(sources)
      merged == SetSpread(ScrapedUrlsOf(data, collection) \o urls)
  IN  [lastScraped |-> SetKey(data.lastScraped, collection,
                              [timestamp |-> "now", urlCount |-> Len(merged),
                               documentCount |-> documentCount]),
       scrapedUrls |-> SetKey(data.scrapedUrls, collection, merged)]

\* the data after markAsScraped, before saveTracking
markAsScraped(data, collection, sources, documentCount) ==
  LET urls == SourceUrls(sources)
      merged == SetSpread(ScrapedUrlsOf(data, collection) \o urls)
  IN  [lastScraped |-> SetKey(data.lastScraped, collection,
                              [timestamp |-> "now", urlCount |-> Len(urls),
                               documentCount |-> documentCount]),
       scrapedUrls |-> SetKey(data.scrapedUrls, collection, merged)]

getLastScraped(data, collection) ==
  IF collection \in DOMAIN data.lastScraped
  THEN <<data.lastScraped[collection]>> ELSE <<>>

\* reset that deletes lastScraped[collection] only
resetLastScrapedOnly(data, collection) ==
  IF collection /= ""
  THEN [lastScraped |-> DeleteKey(data.lastScraped, collection),
        scrapedUrls |-> data.scrapedUrls]
  ELSE [lastScraped |-> <<>>, scrapedUrls |-> data.scrapedUrls]

\* the data after reset(collection); collection = "" stands for no argument
reset(data, collection) ==
  IF collection /= ""
  THEN [lastScraped |-> DeleteKey(data.lastScraped, collection),
        scrapedUrls |-> DeleteKey(data.scrapedUrls, collection)]
  ELSE EmptyTracking

(***************************************************************************)
(* State of the ingestion script (scripts/scrape-menopause-sources.ts).    *)
(***************************************************************************)
VARIABLES
  \* the world outside the process
  file,            \* .scrape-tracking.json
  store,           \* the vector store: collection name -> stored chunks
  configured,      \* how many of breastCancerSources the registry lists so far
  runs,            \* CLI processes started so far
  prevRun,         \* the last scrapeSources call, when it was a non-forced one
                   \* that returned normally and nothing was reset or
                   \* reconfigured since (follows: the outcome of the call
                   \* before it, when for the same collection); NoRun otherwise
  \* the CLI process
  pc,              \* "idle" (no process), or the await the process is at
  exitCode,        \* status the last process ended with; -1 while one runs
  data,            \* ScrapeTracker.data
  onlyNew,         \* !isForce
  queue,           \* scrapeSources calls main has still to make
  \* the scrapeSources call under way (or the last one of the last process)
  collection,      \* its first argument, "" when there was no call
  collectionExists,
  sourcesToScrape,
  si,              \* position of the for-of loop of scrapeMultipleURLs
  allDocs,
  bi,              \* i of the batch loop
  outcome,         \* how the call ended: "running", "already", "nosources",
                   \* "empty", "storeerror", "success"; "none" without a call
  \* what the call did, and where it started from
  fetched,         \* scrapeURL calls: [url, loaded]
  storeCalls,      \* vector-store writes: [kind, batch, ok]
  marked,          \* markAsScraped calls: [collection, sources, documentCount]
  startFile,       \* the tracking file when the call began
  startData,       \* the tracker's data when the call began
  runFile,         \* the tracking file when the process began
  failure          \* the last call that a store call after its first batch ended:
                   \* its collection, its sources, the chunks its batches had
                   \* stored, and whether a call for the collection came since
                   \* ("no", "now": the one under way or last made, "done")

\* the variables of the script but the tracker's data and file
processVars == <<store, configured, runs, prevRun, pc, exitCode, onlyNew, queue,
                 collection, collectionExists, sourcesToScrape, si, allDocs, bi, outcome,
                 fetched, storeCalls, marked, startFile, startData, runFile, failure>>

ingestVars == <<file, data, processVars>>

(***************************************************************************)
(* State of a ScrapeTracker object whose methods are called one by one.    *)
(***************************************************************************)
VARIABLES
  last,            \* the last method call: its arguments, scrapedUrls before it
                   \* (before), its result, and, for getUnscrapedSources, which
                   \* mutation of the same collection it came right after
                   \* (follows) and scrapedUrls before that mutation (earlier)
  methodCalls      \* method calls so far

trackerVars == <<last, methodCalls>>

(***************************************************************************)
(* State of the server: the RAGService object and the flag of the route   *)
(* module.                                                                 *)
(***************************************************************************)
VARIABLES
  vectorStoreCache,   \* collection type -> the collection its store is connected to
  currentCollection,
  isInitialized,
  req                 \* request -> the state of its handler

ragVars == <<vectorStoreCache, currentCollection, isInitialized, req>>

(***************************************************************************)
(* State of a RAGService object whose methods are called one after the     *)
(* other.                                                                  *)
(***************************************************************************)
VARIABLES
  method,          \* the method call under way, or the last one that ended
  methods          \* method calls so far

serviceVars == <<method, methods>>

(***************************************************************************)
(* State of one /query/stream request and its consumer.                    *)
(***************************************************************************)
VARIABLES
  stream,          \* the handler: its position, its request, fullAnswer
  events,          \* the events written with res.write, in order
  produced,        \* the chunks the stream of the model has produced so far
  client           \* the consumer: connected or not, and where the handler was,
                   \* how many events were written and how many chunks produced
                   \* when it disconnected

streamVars == <<stream, events, produced, client>>

(***************************************************************************)
(* State of the objects of services/scraper when they are called on their  *)
(* own.                                                                    *)
(***************************************************************************)
VARIABLES
  scraper,         \* a scrapeMultipleURLs call: arguments, position, allDocs
  validator,       \* a validateContent call: the document and the result
  detector,        \* the removeDuplicates calls on a DuplicateDetector
  limiter          \* a RateLimiter: the clock, lastRequestTime, the throttle calls

scraperVars == <<scraper, validator, detector, limiter>>

apiVars == <<serviceVars, streamVars, scraperVars>>

\* line 344: the collection name of a CollectionType
collectionNameOf(c) ==
  IF c = "menopause" THEN "menopause_knowledge"
  ELSE IF c = "breast_cancer" THEN "breast_cancer_knowledge" ELSE "pcos_knowledge"

\* line 528: the collection name of a command-line topic
resetNameOf(topic) ==
  IF topic = "menopause" THEN "menopause_knowledge"
  ELSE IF topic = "breast-cancer" THEN "breast_cancer_knowledge" ELSE "pcos_knowledge"

\* the source list main passes with a CollectionType, from a registry that
\* lists n breast cancer sources
sourcesOf(c, n) ==
  IF c = "menopause" THEN menopauseSources
  ELSE IF c = "breast_cancer" THEN SubSeq(breastCancerSources, 1, n) ELSE pcosSources

collectionName == collectionNameOf(collection)

NoRun == [collection |-> "", outcome |-> "none", follows |-> "none"]

NoFailure == [collection |-> "", sources |-> <<>>, stored |-> <<>>, retry |-> "none"]

\* the record of the last failure when a call for collection c begins
Retried(c) ==
  IF failure.collection /= c THEN failure
  ELSE [failure EXCEPT !.retry = IF failure.retry = "no" THEN "now" ELSE "done"]

\* no process was started yet
NoProcess ==
  /\ configured = 1
  /\ runs = 0
  /\ prevRun = NoRun
  /\ pc = "idle"
  /\ exitCode = -1
  /\ onlyNew = TRUE
  /\ queue = <<>>
  /\ collection = ""
  /\ collectionExists = FALSE
  /\ sourcesToScrape = <<>>
  /\ si = 1
  /\ allDocs = <<>>
  /\ bi = 0
  /\ outcome = "none"
  /\ fetched = <<>>
  /\ storeCalls = <<>>
  /\ marked = <<>>
  /\ startFile = NoFile
  /\ startData = EmptyTracking
  /\ runFile = NoFile
  /\ failure = NoFailure

ProcessInit ==
  /\ store = <<>>
  /\ NoProcess

IngestInit ==
  /\ file = NoFile
  /\ data = EmptyTracking
  /\ ProcessInit

(***************************************************************************)
(* main and scrapeSources.  An action is the code between two awaits of    *)
(* input or output.                                                        *)
(***************************************************************************)
Topics == {"menopause", "breast-cancer", "pcos", "all", ""}

Args == [topic : Topics, status : BOOLEAN, reset : BOOLEAN, force : BOOLEAN,
         help : BOOLEAN]

\* lines 570-583: the scrapeSources calls of a topic
callsOf(topic) ==
  IF topic = "all" THEN <<"menopause", "breast_cancer", "pcos">>
  ELSE IF topic = "menopause" THEN <<"menopause">>
  ELSE IF topic = "breast-cancer" THEN <<"breast_cancer">>
  ELSE <<"pcos">>

\* the process ends with status `code`
Exit(code) ==
  /\ pc' = "idle"
  /\ exitCode' = code
  /\ queue' = <<>>

\* a process that makes no scrapeSources call
NoCall ==
  /\ collection' = ""
  /\ outcome' = "none"
  /\ collectionExists' = FALSE
  /\ sourcesToScrape' = <<>>
  /\ si' = 1
  /\ allDocs' = <<>>
  /\ bi' = 0
  /\ fetched' = <<>>
  /\ storeCalls' = <<>>
  /\ marked' = <<>>
  /\ startFile' = file'
  /\ startData' = data'
  /\ failure' = failure

\* scrapeSources(calls[1], ...) is called with tracker data d and runs up to
\* its first await (checkCollectionExists); the calls after it stay queued
Call(calls, d) ==
  /\ pc' = "check"
  /\ queue' = Tail(calls)
  /\ collection' = calls[1]
  /\ outcome' = "running"
  /\ collectionExists' = FALSE
  /\ sourcesToScrape' = sourcesOf(calls[1], configured)
  /\ si' = 1
  /\ allDocs' = <<>>
  /\ bi' = 0
  /\ fetched' = <<>>
  /\ storeCalls' = <<>>
  /\ marked' = <<>>
  /\ startFile' = file
  /\ startData' = d
  /\ failure' = Retried(calls[1])

\* Return that ends the process when the call had nothing to scrape
ReturnAlreadyEnds(o, q) ==
  /\ outcome' = o
  /\ prevRun' = IF onlyNew
                THEN [collection |-> collection, outcome |-> o,
                      follows |-> IF prevRun.collection = collection
                                  THEN prevRun.outcome ELSE "none"]
                ELSE NoRun
  /\ exitCode' = IF q = <<>> \/ o = "already" THEN 0 ELSE exitCode
  /\ pc' = IF q = <<>> \/ o = "already" THEN "idle" ELSE "returned"
  /\ queue' = IF o = "already" THEN <<>> ELSE q

\* scrapeSources returns to main with outcome o and the queue q still to do:
\* main makes the next call, or ends with process.exit(0)
Return(o, q) ==
  /\ outcome' = o
  /\ prevRun' = IF onlyNew
                THEN [collection |-> collection, outcome |-> o,
                      follows |-> IF prevRun.collection = collection
                                  THEN prevRun.outcome ELSE "none"]
                ELSE NoRun
  /\ exitCode' = IF q = <<>> THEN 0 ELSE exitCode
  /\ pc' = IF q = <<>> THEN "idle" ELSE "returned"
  /\ queue' = q

\* scrapeSources ends the process with process.exit(1), or throws to main,
\* which does the same
Fail(o) ==
  /\ outcome' = o
  /\ prevRun' = NoRun
  /\ Exit(1)

\* Main that looks at --reset before --status
MainResetFirst(a) ==
  /\ UNCHANGED <<trackerVars, ragVars, apiVars>>
  /\ pc = "idle"
  /\ runs < MaxRuns
  /\ runs' = runs + 1
  /\ runFile' = file
  /\ UNCHANGED <<store, configured>>
  /\ LET loaded == loadTracking(file)
     IN  IF a.reset
         THEN /\ data' = reset(loaded, IF a.topic /= "" /\ a.topic /= "all"
                                       THEN resetNameOf(a.topic) ELSE "")
              /\ file' = saveTracking(data')
              /\ Exit(0)
              /\ NoCall
              /\ prevRun' = NoRun
              /\ UNCHANGED onlyNew
         ELSE IF a.status
         THEN /\ data' = loaded
              /\ UNCHANGED <<file, onlyNew, prevRun>>
              /\ Exit(0)
              /\ NoCall
         ELSE IF a.topic = "" \/ a.help
         THEN /\ data' = loaded
              /\ UNCHANGED <<file, onlyNew, prevRun>>
              /\ Exit(0)
              /\ NoCall
         ELSE /\ data' = loaded
              /\ onlyNew' = ~a.force
              /\ exitCode' = -1
              /\ Call(callsOf(a.topic), loaded)
              /\ UNCHANGED <<file, prevRun>>

\* main: a process starts with arguments a
Main(a) ==
  /\ UNCHANGED <<trackerVars, ragVars, apiVars>>
  /\ pc = "idle"
  /\ runs < MaxRuns
  /\ runs' = runs + 1
  /\ runFile' = file
  /\ UNCHANGED <<store, configured>>
  /\ LET loaded == loadTracking(file)
     IN  IF a.status
         THEN \* showStatus only prints
              /\ data' = loaded
              /\ UNCHANGED <<file, onlyNew, prevRun>>
              /\ Exit(0)
              /\ NoCall
         ELSE IF a.reset
         THEN /\ data' = reset(loaded, IF a.topic /= "" /\ a.topic /= "all"
                                       THEN resetNameOf(a.topic) ELSE "")
              /\ file' = saveTracking(data')
              /\ Exit(0)
              /\ NoCall
              /\ prevRun' = NoRun
              /\ UNCHANGED onlyNew
         ELSE IF a.topic = "" \/ a.help
         THEN /\ data' = loaded
              /\ UNCHANGED <<file, onlyNew, prevRun>>
              /\ Exit(0)
              /\ NoCall
         ELSE /\ data' = loaded
              /\ onlyNew' = ~a.force
              /\ exitCode' = -1
              /\ Call(callsOf(a.topic), loaded)
              /\ UNCHANGED <<file, prevRun>>

\* main, between two scrapeSources calls of the topic "all"
NextCall ==
  /\ UNCHANGED <<trackerVars, ragVars, apiVars>>
  /\ pc = "returned"
  /\ Call(queue, data)
  /\ UNCHANGED <<file, store, configured, runs, prevRun, exitCode, data, onlyNew,
                 runFile>>

\* the registry gets its next breast cancer source, between two processes
Configure ==
  /\ UNCHANGED <<trackerVars, ragVars, apiVars>>
  /\ pc = "idle"
  /\ configured < Len(breastCancerSources)
  /\ configured' = configured + 1
  /\ prevRun' = NoRun
  /\ UNCHANGED <<file, store, runs, pc, exitCode, data, onlyNew, queue, collection,
                 collectionExists, sourcesToScrape, si, allDocs, bi, outcome, fetched,
                 storeCalls, marked, startFile, startData, runFile,
                 failure>>

\* CheckCollectionExists that restricts the sources whatever onlyNew is
CheckCollectionExistsAlways(answered) ==
  /\ UNCHANGED <<trackerVars, ragVars, apiVars>>
  /\ pc = "check"
  /\ LET exists == answered /\ collectionName \in DOMAIN store
         sources == sourcesOf(collection, configured)
         toScrape == IF exists
                     THEN getUnscrapedSources(data, collectionName, sources)
                     ELSE sources
     IN  /\ collectionExists' = exists
         /\ sourcesToScrape' = toScrape
         /\ IF onlyNew /\ exists /\ Len(toScrape) = 0
            THEN Return("already", queue)
            ELSE IF Len(toScrape) = 0
            THEN Fail("nosources")
            ELSE /\ pc' = "scrape"
                 /\ UNCHANGED <<exitCode, queue, outcome, prevRun>>
  /\ UNCHANGED <<file, store, configured, runs, data, onlyNew, collection, si,
                 allDocs, bi, fetched, storeCalls, marked, startFile, startData, runFile,
                 failure>>

\* CheckCollectionExists that asks the tracker whether or not the collection
\* exists
CheckCollectionExistsTracked(answered) ==
  /\ UNCHANGED <<trackerVars, ragVars, apiVars>>
  /\ pc = "check"
  /\ LET exists == answered /\ collectionName \in DOMAIN store
         sources == sourcesOf(collection, configured)
         toScrape == IF onlyNew
                     THEN getUnscrapedSources(data, collectionName, sources)
                     ELSE sources
     IN  /\ collectionExists' = exists
         /\ sourcesToScrape' = toScrape
         /\ IF onlyNew /\ Len(toScrape) = 0
            THEN Return("already", queue)
            ELSE IF Len(toScrape) = 0
            THEN Fail("nosources")
            ELSE /\ pc' = "scrape"
                 /\ UNCHANGED <<exitCode, queue, outcome, prevRun>>
  /\ UNCHANGED <<file, store, configured, runs, data, onlyNew, collection, si,
                 allDocs, bi, fetched, storeCalls, marked, startFile, startData, runFile,
                 failure>>

\* checkCollectionExists answers (answered = FALSE: getCollections threw), and
\* scrapeSources chooses the sources to scrape (lines 355-386)
CheckCollectionExists(answered) ==
  /\ UNCHANGED <<trackerVars, ragVars, apiVars>>
  /\ pc = "check"
  /\ LET exists == answered /\ collectionName \in DOMAIN store
         sources == sourcesOf(collection, configured)
         toScrape == IF onlyNew /\ exists
                     THEN getUnscrapedSources(data, collectionName, sources)
                     ELSE sources
     IN  /\ collectionExists' = exists
         /\ sourcesToScrape' = toScrape
         /\ IF onlyNew /\ exists /\ Len(toScrape) = 0
            THEN Return("already", queue)
            ELSE IF Len(toScrape) = 0
            THEN Fail("nosources")
            ELSE /\ pc' = "scrape"
                 /\ UNCHANGED <<exitCode, queue, outcome, prevRun>>
  /\ UNCHANGED <<file, store, configured, runs, data, onlyNew, collection, si,
                 allDocs, bi, fetched, storeCalls, marked, startFile, startData, runFile,
                 failure>>

\* ScrapeURL that starts the list over when a page could not be loaded
ScrapeURLStartOver(loaded) ==
  /\ UNCHANGED <<trackerVars, ragVars, apiVars>>
  /\ pc = "scrape"
  /\ LET source == sourcesToScrape[si]
     IN  IF loaded
         THEN /\ allDocs' = allDocs \o scrapeURL(source.url, loaded)
              /\ fetched' = Append(fetched, [url |-> source.url, loaded |-> loaded])
              /\ si' = si + 1
              /\ pc' = IF si < Len(sourcesToScrape) THEN "scrape" ELSE "validate"
         ELSE /\ allDocs' = <<>>
              /\ fetched' = <<>>
              /\ si' = 1
              /\ pc' = "scrape"
  /\ UNCHANGED <<file, store, configured, runs, prevRun, exitCode, data, onlyNew,
                 queue, collection, collectionExists, sourcesToScrape, bi, outcome,
                 storeCalls, marked, startFile, startData, runFile,
                 failure>>

\* scrapeMultipleURLs: scrapeURL of the next source returns, and the delay
\* after it is over
ScrapeURL(loaded) ==
  /\ UNCHANGED <<trackerVars, ragVars, apiVars>>
  /\ pc = "scrape"
  /\ LET source == sourcesToScrape[si]
     IN  /\ allDocs' = allDocs \o scrapeURL(source.url, loaded)
         /\ fetched' = Append(fetched, [url |-> source.url, loaded |-> loaded])
  /\ si' = si + 1
  /\ pc' = IF si < Len(sourcesToScrape) THEN "scrape" ELSE "validate"
  /\ UNCHANGED <<file, store, configured, runs, prevRun, exitCode, data, onlyNew,
                 queue, collection, collectionExists, sourcesToScrape, bi, outcome,
                 storeCalls, marked, startFile, startData, runFile,
                 failure>>

\* Validate without the check of lines 431-438 for an empty result
ValidateUnchecked ==
  /\ UNCHANGED <<trackerVars, ragVars, apiVars>>
  /\ pc = "validate"
  /\ allDocs' = removeDuplicates(filterValidDocuments(allDocs))
  /\ pc' = "store"
  /\ UNCHANGED <<exitCode, queue, outcome, prevRun>>
  /\ UNCHANGED <<file, store, configured, runs, data, onlyNew, collection,
                 collectionExists, sourcesToScrape, si, bi, fetched, storeCalls, marked,
                 startFile, startData, runFile,
                 failure>>

\* Validate that removes the duplicates before it validates
ValidateAfterDedup ==
  /\ UNCHANGED <<trackerVars, ragVars, apiVars>>
  /\ pc = "validate"
  /\ allDocs' = filterValidDocuments(removeDuplicates(allDocs))
  /\ IF Len(allDocs') = 0
     THEN Fail("empty")
     ELSE /\ pc' = "store"
          /\ UNCHANGED <<exitCode, queue, outcome, prevRun>>
  /\ UNCHANGED <<file, store, configured, runs, data, onlyNew, collection,
                 collectionExists, sourcesToScrape, si, bi, fetched, storeCalls, marked,
                 startFile, startData, runFile,
                 failure>>

\* lines 408-438: validate, deduplicate, and give up when nothing is left
Validate ==
  /\ UNCHANGED <<trackerVars, ragVars, apiVars>>
  /\ pc = "validate"
  /\ allDocs' = removeDuplicates(filterValidDocuments(allDocs))
  /\ IF Len(allDocs') = 0
     THEN Fail("empty")
     ELSE /\ pc' = "store"
          /\ UNCHANGED <<exitCode, queue, outcome, prevRun>>
  /\ UNCHANGED <<file, store, configured, runs, data, onlyNew, collection,
                 collectionExists, sourcesToScrape, si, bi, fetched, storeCalls, marked,
                 startFile, startData, runFile,
                 failure>>

\* the record of the call under way when a store call of it has thrown, the
\* calls before it being `calls`
Failed(calls) ==
  IF calls = <<>> THEN failure
  ELSE [collection |-> collection, sources |-> sourcesToScrape,
        stored |-> Concat([i \in DOMAIN calls |-> calls[i].batch]), retry |-> "no"]

\* the vector store after batch was written to the collection
Written(st, name, batch) ==
  SetKey(st, name, (IF name \in DOMAIN st THEN st[name] ELSE <<>>) \o batch)

\* StoreBatch with a catch inside the loop that logs the failed batch and goes on
StoreBatchSwallow(ok) ==
  /\ UNCHANGED <<trackerVars, ragVars, apiVars>>
  /\ pc = "store"
  /\ LET batch == Slice(allDocs, bi, bi + BATCH_SIZE)
         kind == IF bi = 0 THEN "fromDocuments" ELSE "addDocuments"
     IN  /\ storeCalls' = Append(storeCalls, [kind |-> kind, batch |-> batch, ok |-> ok])
         /\ store' = IF ok THEN Written(store, collectionName, batch) ELSE store
         /\ bi' = bi + BATCH_SIZE
         /\ pc' = IF bi' < Len(allDocs) THEN "store" ELSE "mark"
         /\ UNCHANGED <<exitCode, queue, outcome, prevRun, failure>>
  /\ UNCHANGED <<file, configured, runs, data, onlyNew, collection, collectionExists,
                 sourcesToScrape, si, allDocs, fetched, marked, startFile, startData, runFile>>

\* StoreBatch that creates the collection with every batch
StoreBatchCreate(ok) ==
  /\ UNCHANGED <<trackerVars, ragVars, apiVars>>
  /\ pc = "store"
  /\ LET batch == Slice(allDocs, bi, bi + BATCH_SIZE)
     IN  /\ storeCalls' = Append(storeCalls,
                                 [kind |-> "fromDocuments", batch |-> batch, ok |-> ok])
         /\ IF ok
            THEN /\ store' = Written(store, collectionName, batch)
                 /\ bi' = bi + BATCH_SIZE
                 /\ pc' = IF bi' < Len(allDocs) THEN "store" ELSE "mark"
                 /\ UNCHANGED <<exitCode, queue, outcome, prevRun, failure>>
            ELSE /\ Fail("storeerror")
                 /\ failure' = Failed(storeCalls)
                 /\ UNCHANGED <<store, bi>>
  /\ UNCHANGED <<file, configured, runs, data, onlyNew, collection, collectionExists,
                 sourcesToScrape, si, allDocs, fetched, marked, startFile, startData, runFile>>

\* the vector store without the chunks a call appended last to the collection
Unwritten(st, name, chunks) ==
  IF name \in DOMAIN st /\ chunks /= <<>>
  THEN SetKey(st, name, SubSeq(st[name], 1, Len(st[name]) - Len(chunks)))
  ELSE st

\* StoreBatch that takes the batches of the call out of the store again when
\* one of them fails
StoreBatchRollback(ok) ==
  /\ UNCHANGED <<trackerVars, ragVars, apiVars>>
  /\ pc = "store"
  /\ LET batch == Slice(allDocs, bi, bi + BATCH_SIZE)
         kind == IF bi = 0 THEN "fromDocuments" ELSE "addDocuments"
     IN  /\ storeCalls' = Append(storeCalls, [kind |-> kind, batch |-> batch, ok |-> ok])
         /\ IF ok
            THEN /\ store' = Written(store, collectionName, batch)
                 /\ bi' = bi + BATCH_SIZE
                 /\ pc' = IF bi' < Len(allDocs) THEN "store" ELSE "mark"
                 /\ UNCHANGED <<exitCode, queue, outcome, prevRun, failure>>
            ELSE /\ Fail("storeerror")
                 /\ failure' = Failed(storeCalls)
                 /\ store' = Unwritten(store, collectionName, Failed(storeCalls).stored)
                 /\ UNCHANGED bi
  /\ UNCHANGED <<file, configured, runs, data, onlyNew, collection, collectionExists,
                 sourcesToScrape, si, allDocs, fetched, marked, startFile, startData, runFile>>

\* lines 448-466: the store call of the batch at bi ends; ok = FALSE: it threw,
\* which the catch logs and rethrows to main (lines 498-505, 588-591)
StoreBatch(ok) ==
  /\ UNCHANGED <<trackerVars, ragVars, apiVars>>
  /\ pc = "store"
  /\ LET batch == Slice(allDocs, bi, bi + BATCH_SIZE)
         kind == IF bi = 0 THEN "fromDocuments" ELSE "addDocuments"
     IN  /\ storeCalls' = Append(storeCalls, [kind |-> kind, batch |-> batch, ok |-> ok])
         /\ IF ok
            THEN /\ store' = Written(store, collectionName, batch)
                 /\ bi' = bi + BATCH_SIZE
                 /\ pc' = IF bi' < Len(allDocs) THEN "store" ELSE "mark"
                 /\ UNCHANGED <<exitCode, queue, outcome, prevRun, failure>>
            ELSE /\ Fail("storeerror")
                 /\ failure' = Failed(storeCalls)
                 /\ UNCHANGED <<store, bi>>
  /\ UNCHANGED <<file, configured, runs, data, onlyNew, collection, collectionExists,
                 sourcesToScrape, si, allDocs, fetched, marked, startFile, startData, runFile>>

\* MarkAsScraped with the configured list in place of sourcesToScrape
MarkAsScrapedConfigured ==
  /\ UNCHANGED <<trackerVars, ragVars, apiVars>>
  /\ pc = "mark"
  /\ data' = markAsScraped(data, collectionName, sourcesOf(collection, configured),
                           Len(allDocs))
  /\ file' = saveTracking(data')
  /\ marked' = Append(marked, [collection |-> collectionName,
                               sources |-> sourcesOf(collection, configured),
                               documentCount |-> Len(allDocs)])
  /\ Return("success", queue)
  /\ UNCHANGED <<store, configured, runs, onlyNew, collection, collectionExists,
                 sourcesToScrape, si, allDocs, bi, fetched, storeCalls, startFile,
                 startData, runFile,
                 failure>>

\* lines 468-497: all batches are stored; markAsScraped, the summary, return
MarkAsScraped ==
  /\ UNCHANGED <<trackerVars, ragVars, apiVars>>
  /\ pc = "mark"
  /\ data' = markAsScraped(data, collectionName, sourcesToScrape, Len(allDocs))
  /\ file' = saveTracking(data')
  /\ marked' = Append(marked, [collection |-> collectionName,
                               sources |-> sourcesToScrape,
                               documentCount |-> Len(allDocs)])
  /\ Return("success", queue)
  /\ UNCHANGED <<store, configured, runs, onlyNew, collection, collectionExists,
                 sourcesToScrape, si, allDocs, bi, fetched, storeCalls, startFile,
                 startData, runFile,
                 failure>>

IngestNext ==
  \/ \E a \in Args : Main(a)
  \/ NextCall
  \/ Configure
  \/ \E answered \in BOOLEAN : CheckCollectionExists(answered)
  \/ \E loaded \in BOOLEAN : ScrapeURL(loaded)
  \/ Validate
  \/ \E ok \in BOOLEAN : StoreBatch(ok)
  \/ MarkAsScraped

(***************************************************************************)
(* The methods of ScrapeTracker, called one by one with any arguments on   *)
(* the object and the file of the script.                                  *)
(***************************************************************************)
\* the argument sets of the calls
TrackerCollections == {"menopause_knowledge", "pcos_knowledge"}

TrackerSources == Range(pcosSources)

SourceLists == UNION {[1..n -> TrackerSources] : n \in 0..MaxList}

DocumentCounts == {0, MaxCount}

NoCallYet ==
  [op |-> "none", collection |-> "", sources |-> <<>>, before |-> <<>>,
   result |-> <<>>, follows |-> "other", earlier |-> <<>>]

TrackerInit ==
  /\ last = NoCallYet
  /\ methodCalls = 0

\* a call of a method other than getUnscrapedSources
CallRecord(op, c, sources, result) ==
  [op |-> op, collection |-> c, sources |-> sources, before |-> data.scrapedUrls,
   result |-> result, follows |-> "other", earlier |-> <<>>]

Called(record) ==
  /\ methodCalls < MaxCalls
  /\ methodCalls' = methodCalls + 1
  /\ last' = record
  /\ UNCHANGED <<processVars, ragVars, apiVars>>

\* new ScrapeTracker(): the constructor loads the file
TrackerNew ==
  /\ data' = loadTracking(file)
  /\ UNCHANGED file
  /\ Called(CallRecord("new", "", <<>>, <<>>))

TrackerMarkAsScraped(c, sources, documentCount) ==
  /\ data' = markAsScraped(data, c, sources, documentCount)
  /\ file' = saveTracking(data')
  /\ Called(CallRecord("markAsScraped", c, sources, <<>>))

TrackerGetUnscrapedSources(c, sources) ==
  /\ UNCHANGED <<data, file>>
  /\ LET follows == IF last.op = "markAsScraped" /\ last.collection = c
                    THEN "markAsScraped"
                    ELSE IF last.op = "reset" /\ last.collection \in {c, ""}
                    THEN "reset" ELSE "other"
     IN  Called([op |-> "getUnscrapedSources", collection |-> c, sources |-> sources,
                 before |-> data.scrapedUrls,
                 result |-> getUnscrapedSources(data, c, sources),
                 follows |-> follows,
                 earlier |-> IF follows = "other" THEN <<>> ELSE last.before])

TrackerGetLastScraped(c) ==
  /\ UNCHANGED <<data, file>>
  /\ Called(CallRecord("getLastScraped", c, <<>>, getLastScraped(data, c)))

\* showStatus prints scrapedUrls and getLastScraped of every collection
TrackerShowStatus ==
  /\ UNCHANGED <<data, file>>
  /\ Called(CallRecord("showStatus", "", <<>>, <<>>))

TrackerReset(c) ==
  /\ data' = reset(data, c)
  /\ file' = saveTracking(data')
  /\ Called(CallRecord("reset", c, <<>>, <<>>))

TrackerNext ==
  \/ TrackerNew
  \/ \E c \in TrackerCollections, sources \in SourceLists, n \in DocumentCounts :
       TrackerMarkAsScraped(c, sources, n)
  \/ \E c \in TrackerCollections, sources \in SourceLists :
       TrackerGetUnscrapedSources(c, sources)
  \/ \E c \in TrackerCollections : TrackerGetLastScraped(c)
  \/ TrackerShowStatus
  \/ \E c \in TrackerCollections \cup {""} : TrackerReset(c)

(***************************************************************************)
(* RAGService (multi-collection) and the /query route of routes/chat.ts.   *)
(* The module holds one RAGService and the flag isInitialized; every       *)
(* request runs the handler.  An action is the handler's code from one     *)
(* await of input or output to the next: awaits of calls that return       *)
(* without input or output do not let another request's handler in.        *)
(***************************************************************************)
\* a text is the sequence of its pieces
\* toLowerCase
ToLowerCase(text) ==
  [i \in DOMAIN text |-> IF text[i] = "Cannot " THEN "cannot " ELSE text[i]]

\* answerLower.includes(phrase)
IncludesPhrase(text, phrase) ==
  \E i \in 0..(Len(text) - Len(phrase)) :
    \A j \in 1..Len(phrase) : text[i + j] = phrase[j]

\* of the phrases of lines 193-205, the one the pieces above can spell
cannotAnswerPhrases == {<<"cannot ", "answer">>}

\* lines 207-208
isAnsweredFromContext(fullAnswer) ==
  ~\E phrase \in cannotAnswerPhrases : IncludesPhrase(ToLowerCase(fullAnswer), phrase)

\* the answers of the model
Answers == {<<"x">>, <<"answer">>, <<"x", "Cannot ", "answer">>}

Requests == 1..MaxRequests

CollectionTypes == {"menopause", "breast_cancer"}

\* lines 12-15
COLLECTION_NAMES(target) ==
  IF target = "menopause" THEN "menopause_knowledge" ELSE "breast_cancer_knowledge"

\* a request not yet received
NewRequest ==
  [pc |-> "new", collection |-> "", valid |-> TRUE, vectorStore |-> "none",
   searched |-> "none", medicalTopic |-> "none", sourced |-> "none",
   status |-> 0, error |-> "none", answer |-> <<>>, overwritten |-> "no",
   results |-> <<>>, sources |-> <<>>, k |-> 4, ranking |-> <<>>, context |-> <<>>]

RagInit ==
  /\ vectorStoreCache = <<>>
  /\ currentCollection = "menopause"
  /\ isInitialized = FALSE
  /\ req = [r \in Requests |-> NewRequest]

\* the service object
Service == [vectorStoreCache |-> vectorStoreCache, currentCollection |-> currentCollection]

\* switchCollection whose cached path leaves currentCollection alone
switchCollectionStale(svc, target) ==
  IF target \in DOMAIN svc.vectorStoreCache
  THEN [service |-> svc, connect |-> FALSE]
  ELSE [service |-> svc, connect |-> TRUE]

\* switchCollection that makes the collection current before it connects
switchCollectionEager(svc, target) ==
  IF svc.currentCollection = target /\ target \in DOMAIN svc.vectorStoreCache
  THEN [service |-> svc, connect |-> FALSE]
  ELSE IF target \in DOMAIN svc.vectorStoreCache
  THEN [service |-> [svc EXCEPT !.currentCollection = target], connect |-> FALSE]
  ELSE [service |-> [svc EXCEPT !.currentCollection = target], connect |-> TRUE]

\* switchCollection that connects again unless the collection is current
switchCollectionReconnect(svc, target) ==
  IF svc.currentCollection = target /\ target \in DOMAIN svc.vectorStoreCache
  THEN [service |-> svc, connect |-> FALSE]
  ELSE [service |-> svc, connect |-> TRUE]

\* switchCollection up to its return or to its await of fromExistingCollection
\* (connect = TRUE)
switchCollection(svc, target) ==
  IF svc.currentCollection = target /\ target \in DOMAIN svc.vectorStoreCache
  THEN [service |-> svc, connect |-> FALSE]
  ELSE IF target \in DOMAIN svc.vectorStoreCache
  THEN [service |-> [svc EXCEPT !.currentCollection = target], connect |-> FALSE]
  ELSE [service |-> svc, connect |-> TRUE]

\* lines 98-99 and 137-138: the store is cached and made the current one
Connected(svc, target, name) ==
  [vectorStoreCache |-> SetKey(svc.vectorStoreCache, target, name),
   currentCollection |-> target]

\* getVectorStore without the check of lines 152-154
getVectorStoreUnchecked(svc) ==
  IF svc.currentCollection \in DOMAIN svc.vectorStoreCache
  THEN svc.vectorStoreCache[svc.currentCollection] ELSE "undefined"

\* getVectorStore; "none" stands for the throw of line 153
getVectorStore(svc) ==
  IF svc.currentCollection \in DOMAIN svc.vectorStoreCache
  THEN svc.vectorStoreCache[svc.currentCollection] ELSE "none"

\* line 189
MedicalTopic(target) == IF target = "menopause" THEN "menopause" ELSE "breast cancer"

\* the requests between the return of their switchCollection and their response
InFlight == {q \in Requests : req[q].pc \in {"search", "llm", "sources"}}

\* the request records once request r has made svc the service state by the
\* call `by` and its own record has become mine: a request in flight that
\* named another collection than the one now current has its pointer overwritten
Settle(r, mine, svc, by) ==
  [q \in Requests |->
     IF q = r THEN mine
     ELSE IF /\ q \in InFlight
             /\ svc.currentCollection /= currentCollection
             /\ svc.currentCollection /= req[q].collection
             /\ req[q].overwritten = "no"
          THEN [req[q] EXCEPT !.overwritten = by]
          ELSE req[q]]

\* the response is sent
Respond(record, status) == [record EXCEPT !.pc = "done", !.status = status]

\* a call threw `error`, and the catch of the route answers 500 with its message
Throw(record, error) == [Respond(record, 500) EXCEPT !.error = error]

\* query() from its call to its first await: getVectorStore, then similaritySearch
QueryStart(record, svc) ==
  IF getVectorStore(svc) = "none"
  THEN Throw(record, "No collection connected")
  ELSE [record EXCEPT !.pc = "search", !.vectorStore = getVectorStore(svc)]

\* lines 41-57 of the route: validation, switchCollection, query
Handle(record, svc) ==
  IF ~record.valid
  THEN [record |-> Respond(record, 400), service |-> svc]
  ELSE LET switched == switchCollection(svc, record.collection)
       IN  IF switched.connect
           THEN [record |-> [record EXCEPT !.pc = "connect"], service |-> svc]
           ELSE [record |-> QueryStart(record, switched.service),
                 service |-> switched.service]

\* the service and the requests after request r ran up to an await
Ran(r, record, svc, by) ==
  /\ vectorStoreCache' = svc.vectorStoreCache
  /\ currentCollection' = svc.currentCollection
  /\ req' = Settle(r, record, svc, by)
  /\ UNCHANGED <<ingestVars, trackerVars, apiVars>>

\* a request arrives, with k sources asked for (4 when the body names no k),
\* and runs to its first await
Request(r, target, valid, k) ==
  /\ req[r].pc = "new"
  /\ LET record == [req[r] EXCEPT !.collection = target, !.valid = valid, !.k = k]
     IN  IF ~isInitialized
         THEN \* ensureInitialized awaits connectToExisting
              Ran(r, [record EXCEPT !.pc = "init"], Service, "switchCollection")
         ELSE LET h == Handle(record, Service)
              IN  Ran(r, h.record, h.service, "switchCollection")
  /\ UNCHANGED isInitialized

\* fromExistingCollection of connectToExisting returns or throws
ConnectToExistingDone(r, ok) ==
  /\ req[r].pc = "init"
  /\ IF ok
     THEN LET svc == Connected(Service, "menopause", "menopause_knowledge")
              h == Handle(req[r], svc)
              by == IF h.service = svc THEN "connectToExisting" ELSE "switchCollection"
          IN  /\ isInitialized' = TRUE
              /\ Ran(r, h.record, h.service, by)
     ELSE /\ Ran(r, Throw(req[r], "connect"), Service, "connectToExisting")
          /\ UNCHANGED isInitialized

\* fromExistingCollection of switchCollection returns or throws
SwitchCollectionDone(r, ok) ==
  /\ req[r].pc = "connect"
  /\ IF ok
     THEN LET svc == Connected(Service, req[r].collection,
                               COLLECTION_NAMES(req[r].collection))
          IN  Ran(r, QueryStart(req[r], svc), svc, "switchCollection")
     ELSE Ran(r, Throw(req[r], "not found or unavailable"), Service, "switchCollection")
  /\ UNCHANGED isInitialized

\* vectorStore.similaritySearch(queryString, n): the n best chunks of the
\* store's ranking for the question, or all of them when there are fewer
similaritySearch(ranking, n) == Slice(ranking, 0, n)

\* line 174: the number of chunks query() asks the store for
PromptChunks == 4

\* similaritySearch of query() returns or throws; the prompt is built, with
\* the chunks it got labelled [Source 1], [Source 2], ... in their order
\* (context), and model.invoke is awaited
SimilaritySearchDone(r, ok, ranking) ==
  /\ req[r].pc = "search"
  /\ IF ok
     THEN Ran(r, [req[r] EXCEPT !.pc = "llm", !.searched = req[r].vectorStore,
                                !.ranking = ranking,
                                !.context = similaritySearch(ranking, PromptChunks),
                                !.medicalTopic = MedicalTopic(currentCollection)],
              Service, "switchCollection")
     ELSE Ran(r, Throw(req[r], "similaritySearch"), Service, "switchCollection")
  /\ UNCHANGED isInitialized

\* model.invoke returns the answer or throws; the route classifies the answer
\* (lines 60-76) and calls getRelevantDocuments when it is from the context
InvokeDone(r, ok, answer) ==
  /\ req[r].pc = "llm"
  /\ LET record == [req[r] EXCEPT !.answer = answer]
     IN  IF ~ok
         THEN Ran(r, Throw(req[r], "invoke"), Service, "switchCollection")
         ELSE IF ~isAnsweredFromContext(answer)
         THEN Ran(r, Respond(record, 200), Service, "switchCollection")
         ELSE IF getVectorStore(Service) = "none"
         THEN Ran(r, Throw(record, "No collection connected"), Service, "switchCollection")
         ELSE Ran(r, [record EXCEPT !.pc = "sources",
                                    !.vectorStore = getVectorStore(Service)],
                  Service, "switchCollection")
  /\ UNCHANGED isInitialized

\* chunks in a collection: two the ingestion script stored, with the
\* organization of their source, and one added from a file, without
StoredChunks ==
  {[pageContent |-> "nci", metadata |-> [organization |-> "National Cancer Institute (NCI)",
                                          source |-> "b1"]],
   [pageContent |-> "acs", metadata |-> [organization |-> "American Cancer Society",
                                          source |-> "b2"]],
   [pageContent |-> "file", metadata |-> [source |-> "data/file.txt"]]}

\* what a similarity search can return: chunks in the order of their ranking
StoreResults == UNION {[1..n -> StoredChunks] : n \in 0..MaxResults}

\* the results of the requests that run side by side
RankedResults ==
  <<[pageContent |-> "file", metadata |-> [source |-> "data/file.txt"]],
    [pageContent |-> "nci", metadata |-> [organization |-> "National Cancer Institute (NCI)",
                                          source |-> "b1"]]>>

\* a || b on metadata fields: the field, or `otherwise` when it is not truthy
OrElse(metadata, field, otherwise) ==
  IF Truthy(metadata, field) THEN metadata[field] ELSE otherwise

\* SourceEntry whose id is the index
SourceEntryZeroBased(doc, index) ==
  [id |-> index,
   content |-> doc.pageContent,
   metadata |-> doc.metadata,
   organization |-> OrElse(doc.metadata, "organization", "Unknown Source"),
   url |-> OrElse(doc.metadata, "source", OrElse(doc.metadata, "url", "undefined"))]

\* lines 106-112: the entry of the response for doc at the zero-based index
SourceEntry(doc, index) ==
  [id |-> index + 1,
   content |-> doc.pageContent,
   metadata |-> doc.metadata,
   organization |-> OrElse(doc.metadata, "organization", "Unknown Source"),
   url |-> OrElse(doc.metadata, "source", OrElse(doc.metadata, "url", "undefined"))]

\* sources.map((doc, index) => ...)
SourcesMap(results) == [i \in DOMAIN results |-> SourceEntry(results[i], i - 1)]

\* the rankings of a store with more chunks than query() asks for
LongRanking ==
  [i \in 1..(PromptChunks + 1) |->
     [pageContent |-> <<"nci1", "nci2", "nci3", "nci4", "nci5">>[i],
      metadata |-> [organization |-> "National Cancer Institute (NCI)", source |-> "b1"]]]

\* the rankings the store can have for the question of a request
Rankings == StoreResults \cup {LongRanking}

\* the k a request can ask for
Ks == 1..MaxK

\* similaritySearch(queryString, k) of getRelevantDocuments returns the k
\* best chunks of the ranking or throws; the response
GetRelevantDocumentsDone(r, ok, ranking) ==
  /\ req[r].pc = "sources"
  /\ IF ok
     THEN LET results == similaritySearch(ranking, req[r].k)
          IN  Ran(r, Respond([req[r] EXCEPT !.sourced = req[r].vectorStore,
                                            !.results = results,
                                            !.sources = SourcesMap(results)], 200),
                  Service, "switchCollection")
     ELSE Ran(r, Throw(req[r], "similaritySearch"), Service, "switchCollection")
  /\ UNCHANGED isInitialized

RagNext ==
  \/ \E r \in Requests, target \in CollectionTypes, valid \in BOOLEAN :
       Request(r, target, valid, PromptChunks)
  \/ \E r \in Requests, ok \in BOOLEAN : ConnectToExistingDone(r, ok)
  \/ \E r \in Requests, ok \in BOOLEAN : SwitchCollectionDone(r, ok)
  \/ \E r \in Requests, ok \in BOOLEAN : SimilaritySearchDone(r, ok, RankedResults)
  \/ \E r \in Requests, ok \in BOOLEAN, answer \in Answers : InvokeDone(r, ok, answer)
  \/ \E r \in Requests, ok \in BOOLEAN : GetRelevantDocumentsDone(r, ok, RankedResults)

\* one request, for any number of sources and with any ranking of the chunks
\* of the store, the same for the two searches of the request
OneQueryNext ==
  \/ \E target \in CollectionTypes, valid \in BOOLEAN, k \in Ks :
       Request(1, target, valid, k)
  \/ \E ok \in BOOLEAN : ConnectToExistingDone(1, ok)
  \/ \E ok \in BOOLEAN : SwitchCollectionDone(1, ok)
  \/ \E ok \in BOOLEAN, ranking \in Rankings : SimilaritySearchDone(1, ok, ranking)
  \/ \E ok \in BOOLEAN, answer \in Answers : InvokeDone(1, ok, answer)
  \/ \E ok \in BOOLEAN : GetRelevantDocumentsDone(1, ok, req[1].ranking)

(***************************************************************************)
(* The methods of RAGService, called one after the other.  A call runs to  *)
(* its first await, and then from await to await.                          *)
(***************************************************************************)
Methods == {"initialize", "connectToExisting", "switchCollection", "query",
            "queryStream", "getRelevantDocuments", "addDocuments"}

\* the methods that begin with getVectorStore()
StoreMethods == {"query", "queryStream", "getRelevantDocuments", "addDocuments"}

\* what a method awaits, in order.  queryStream is the generator up to the
\* stream it iterates.
Awaits(op) ==
  IF op = "initialize" THEN <<"load", "splitDocuments", "fromDocuments">>
  ELSE IF op \in {"connectToExisting", "switchCollection"} THEN <<"fromExistingCollection">>
  ELSE IF op = "query" THEN <<"similaritySearch", "invoke">>
  ELSE IF op = "queryStream" THEN <<"similaritySearch", "stream">>
  ELSE IF op = "getRelevantDocuments" THEN <<"similaritySearch">>
  ELSE <<"load", "splitDocuments", "addDocuments">>

NoMethod ==
  [op |-> "none", target |-> "", outcome |-> "none", error |-> "none", at |-> 0,
   connected |-> FALSE, active |-> "", vectorStore |-> "none", did |-> <<>>]

ServiceInit ==
  /\ method = NoMethod
  /\ methods = 0

\* the call of an awaited function, on a vector store or a collection
Awaited(call, on) == [call |-> call, on |-> on]

\* what the call awaited at position `at` of the method is made on
AwaitedOn(m, at) ==
  LET call == Awaits(m.op)[at]
  IN  Awaited(call,
              IF call \in {"similaritySearch", "addDocuments"} THEN m.vectorStore
              ELSE IF m.op = "switchCollection" THEN COLLECTION_NAMES(m.target)
              ELSE IF m.op = "connectToExisting" THEN "menopause_knowledge"
              ELSE IF call = "fromDocuments" THEN "documents"
              ELSE "")

\* the method op is called and runs to its first await, or to its end
CallMethod(op, target) ==
  /\ method.outcome /= "running"
  /\ methods < MaxMethods
  /\ methods' = methods + 1
  /\ LET connected == currentCollection \in DOMAIN vectorStoreCache
         \* connected and active: the service as the call found it
         called == [NoMethod EXCEPT !.op = op, !.target = target,
                                    !.connected = connected,
                                    !.active = currentCollection]
         running == [called EXCEPT !.outcome = "running", !.at = 1]
     IN  IF op = "switchCollection"
         THEN LET switched == switchCollection(Service, target)
              IN  /\ vectorStoreCache' = switched.service.vectorStoreCache
                  /\ currentCollection' = switched.service.currentCollection
                  /\ method' = IF switched.connect
                               THEN [running EXCEPT !.did = <<AwaitedOn(running, 1)>>]
                               ELSE [called EXCEPT !.outcome = "returned"]
         ELSE /\ UNCHANGED <<vectorStoreCache, currentCollection>>
              /\ method' =
                   IF op \notin StoreMethods
                   THEN [running EXCEPT !.did = <<AwaitedOn(running, 1)>>]
                   ELSE IF getVectorStore(Service) = "none"
                   THEN [called EXCEPT !.outcome = "threw",
                                       !.error = "No collection connected"]
                   ELSE LET held == [running EXCEPT
                                       !.vectorStore = getVectorStore(Service)]
                        IN  [held EXCEPT !.did = <<AwaitedOn(held, 1)>>]
  /\ UNCHANGED <<isInitialized, req, ingestVars, trackerVars, streamVars, scraperVars>>

\* the call the method awaits returns (ok) or throws
AwaitDone(ok) ==
  /\ method.outcome = "running"
  /\ IF ~ok
     THEN /\ method' = [method EXCEPT
                          !.outcome = "threw",
                          !.error = IF method.op = "switchCollection"
                                    THEN "not found or unavailable"
                                    ELSE Awaits(method.op)[method.at]]
          /\ UNCHANGED <<vectorStoreCache, currentCollection>>
     ELSE IF method.at < Len(Awaits(method.op))
     THEN /\ method' = [method EXCEPT
                          !.at = method.at + 1,
                          !.did = Append(method.did, AwaitedOn(method, method.at + 1))]
          /\ UNCHANGED <<vectorStoreCache, currentCollection>>
     ELSE /\ method' = [method EXCEPT !.outcome = "returned"]
          /\ LET svc == IF method.op = "switchCollection"
                        THEN Connected(Service, method.target,
                                       COLLECTION_NAMES(method.target))
                        ELSE IF method.op = "connectToExisting"
                        THEN Connected(Service, "menopause", "menopause_knowledge")
                        ELSE IF method.op = "initialize"
                        THEN Connected(Service, "menopause", "documents")
                        ELSE Service
             IN  /\ vectorStoreCache' = svc.vectorStoreCache
                 /\ currentCollection' = svc.currentCollection
  /\ UNCHANGED <<methods, isInitialized, req, ingestVars, trackerVars, streamVars,
                 scraperVars>>

ServiceNext ==
  \/ \E op \in Methods :
       \E target \in IF op = "switchCollection" THEN CollectionTypes ELSE {""} :
         CallMethod(op, target)
  \/ \E ok \in BOOLEAN : AwaitDone(ok)

(***************************************************************************)
(* Specifications.                                                         *)
(***************************************************************************)
(***************************************************************************)
(* POST /query/stream (routes/chat.ts) with queryStream of RAGService.  A  *)
(* text is the sequence of its pieces.                                     *)
(***************************************************************************)
\* the chunks of the model's stream: content is a string, or is not one
StringChunk(text) == [content |-> text, string |-> TRUE]

OtherChunk == [content |-> <<>>, string |-> FALSE]

Chunks == {StringChunk(<<"x">>), StringChunk(<<"Cannot ">>), StringChunk(<<"answer">>),
           StringChunk(<<>>), OtherChunk}

NewStream ==
  [pc |-> "new", valid |-> TRUE, collection |-> "", status |-> 0,
   vectorStore |-> "none", fullAnswer |-> <<>>, grounded |-> FALSE]

StreamInit ==
  /\ stream = NewStream
  /\ events = <<>>
  /\ produced = <<>>
  /\ client = [connected |-> TRUE, at |-> "", events |-> 0, produced |-> 0]

Event(type, content) == [type |-> type, content |-> content]

\* res.write of an event
Write(type, content) == events' = Append(events, Event(type, content))

\* the catch of lines 250-280: the error event, and res.end()
Caught(record) ==
  /\ Write("error", <<>>)
  /\ stream' = [record EXCEPT !.pc = "done"]

\* lines 172-182: the headers are sent, and the first next() of queryStream
\* runs to the await of similaritySearch
StartStream(record, svc) ==
  IF getVectorStore(svc) = "none"
  THEN Caught(record)
  ELSE /\ stream' = [record EXCEPT !.pc = "search", !.vectorStore = getVectorStore(svc)]
       /\ UNCHANGED events

\* lines 160-170: validation and switchCollection
StreamHandle(record) ==
  IF ~record.valid
  THEN /\ stream' = [record EXCEPT !.pc = "done", !.status = 400]
       /\ UNCHANGED <<events, vectorStoreCache, currentCollection>>
  ELSE LET switched == switchCollection(Service, record.collection)
       IN  IF switched.connect
           THEN /\ stream' = [record EXCEPT !.pc = "connect"]
                /\ UNCHANGED <<events, vectorStoreCache, currentCollection>>
           ELSE /\ vectorStoreCache' = switched.service.vectorStoreCache
                /\ currentCollection' = switched.service.currentCollection
                /\ StartStream(record, switched.service)

StreamFrame == UNCHANGED <<ingestVars, trackerVars, req, serviceVars, scraperVars>>

\* the request arrives and runs to its first await
StreamRequest(target, valid) ==
  /\ stream.pc = "new"
  /\ LET record == [stream EXCEPT !.collection = target, !.valid = valid]
     IN  IF ~isInitialized
         THEN /\ stream' = [record EXCEPT !.pc = "init"]
              /\ UNCHANGED <<events, vectorStoreCache, currentCollection>>
         ELSE StreamHandle(record)
  /\ UNCHANGED <<isInitialized, produced, client>>
  /\ StreamFrame

\* fromExistingCollection of connectToExisting returns or throws
StreamConnectToExistingDone(ok) ==
  /\ stream.pc = "init"
  /\ IF ok
     THEN /\ isInitialized' = TRUE
          /\ LET svc == Connected(Service, "menopause", "menopause_knowledge")
                 switched == switchCollection(svc, stream.collection)
             IN  IF ~stream.valid
                 THEN /\ stream' = [stream EXCEPT !.pc = "done", !.status = 400]
                      /\ vectorStoreCache' = svc.vectorStoreCache
                      /\ currentCollection' = svc.currentCollection
                      /\ UNCHANGED events
                 ELSE IF switched.connect
                 THEN /\ stream' = [stream EXCEPT !.pc = "connect"]
                      /\ vectorStoreCache' = svc.vectorStoreCache
                      /\ currentCollection' = svc.currentCollection
                      /\ UNCHANGED events
                 ELSE /\ vectorStoreCache' = switched.service.vectorStoreCache
                      /\ currentCollection' = switched.service.currentCollection
                      /\ StartStream(stream, switched.service)
     ELSE /\ Caught(stream)
          /\ UNCHANGED <<isInitialized, vectorStoreCache, currentCollection>>
  /\ UNCHANGED <<produced, client>>
  /\ StreamFrame

\* fromExistingCollection of switchCollection returns or throws
StreamSwitchCollectionDone(ok) ==
  /\ stream.pc = "connect"
  /\ IF ok
     THEN LET svc == Connected(Service, stream.collection,
                               COLLECTION_NAMES(stream.collection))
          IN  /\ vectorStoreCache' = svc.vectorStoreCache
              /\ currentCollection' = svc.currentCollection
              /\ StartStream(stream, svc)
     ELSE /\ Caught(stream)
          /\ UNCHANGED <<vectorStoreCache, currentCollection>>
  /\ UNCHANGED <<isInitialized, produced, client>>
  /\ StreamFrame

\* similaritySearch of queryStream returns or throws; model.stream is awaited
StreamSimilaritySearchDone(ok) ==
  /\ stream.pc = "search"
  /\ IF ok
     THEN /\ stream' = [stream EXCEPT !.pc = "stream"]
          /\ UNCHANGED events
     ELSE Caught(stream)
  /\ UNCHANGED <<vectorStoreCache, currentCollection, isInitialized, produced, client>>
  /\ StreamFrame

\* model.stream returns the stream, whose first chunk is awaited, or throws
ModelStreamDone(ok) ==
  /\ stream.pc = "stream"
  /\ IF ok
     THEN /\ stream' = [stream EXCEPT !.pc = "pull"]
          /\ UNCHANGED events
     ELSE Caught(stream)
  /\ UNCHANGED <<vectorStoreCache, currentCollection, isInitialized, produced, client>>
  /\ StreamFrame

\* Pull that forwards a fragment only when it is not empty
PullNonEmpty(chunk) ==
  /\ stream.pc = "pull"
  /\ Len(produced) < MaxFragments
  /\ produced' = Append(produced, chunk)
  /\ IF chunk.string /\ chunk.content /= <<>>
     THEN /\ stream' = [stream EXCEPT !.fullAnswer = stream.fullAnswer \o chunk.content]
          /\ Write("chunk", chunk.content)
     ELSE UNCHANGED <<stream, events>>
  /\ UNCHANGED <<vectorStoreCache, currentCollection, isInitialized, client>>
  /\ StreamFrame

\* the stream produces a chunk: queryStream yields its content when it is a
\* string (lines 285-289), the handler appends it to fullAnswer and writes the
\* chunk event (lines 181-184), and the next chunk is awaited
Pull(chunk) ==
  /\ stream.pc = "pull"
  /\ Len(produced) < MaxFragments
  /\ produced' = Append(produced, chunk)
  /\ IF chunk.string
     THEN /\ stream' = [stream EXCEPT !.fullAnswer = stream.fullAnswer \o chunk.content]
          /\ Write("chunk", chunk.content)
     ELSE UNCHANGED <<stream, events>>
  /\ UNCHANGED <<vectorStoreCache, currentCollection, isInitialized, client>>
  /\ StreamFrame

\* the stream of the model throws in place of a chunk
PullThrow ==
  /\ stream.pc = "pull"
  /\ Caught(stream)
  /\ UNCHANGED <<vectorStoreCache, currentCollection, isInitialized, produced, client>>
  /\ StreamFrame

\* PullEnd that asks for the sources whatever the answer says
PullEndAlways ==
  /\ stream.pc = "pull"
  /\ LET grounded == isAnsweredFromContext(stream.fullAnswer)
         record == [stream EXCEPT !.grounded = grounded]
     IN  IF getVectorStore(Service) = "none"
         THEN Caught(record)
         ELSE /\ stream' = [record EXCEPT !.pc = "sources",
                                          !.vectorStore = getVectorStore(Service)]
              /\ UNCHANGED events
  /\ UNCHANGED <<vectorStoreCache, currentCollection, isInitialized, produced, client>>
  /\ StreamFrame

\* the stream of the model ends: the answer is classified (lines 189-208);
\* getRelevantDocuments is awaited when it is from the context, or else the
\* done event is written (lines 211-231)
PullEnd ==
  /\ stream.pc = "pull"
  /\ LET grounded == isAnsweredFromContext(stream.fullAnswer)
         record == [stream EXCEPT !.grounded = grounded]
     IN  IF ~grounded
         THEN /\ Write("done", <<>>)
              /\ stream' = [record EXCEPT !.pc = "done"]
         ELSE IF getVectorStore(Service) = "none"
         THEN Caught(record)
         ELSE /\ stream' = [record EXCEPT !.pc = "sources",
                                          !.vectorStore = getVectorStore(Service)]
              /\ UNCHANGED events
  /\ UNCHANGED <<vectorStoreCache, currentCollection, isInitialized, produced, client>>
  /\ StreamFrame

\* similaritySearch of getRelevantDocuments returns or throws (lines 213-231)
StreamGetRelevantDocumentsDone(ok) ==
  /\ stream.pc = "sources"
  /\ IF ok
     THEN /\ events' = events \o <<Event("sources", <<stream.vectorStore>>),
                                    Event("done", <<>>)>>
          /\ stream' = [stream EXCEPT !.pc = "done"]
     ELSE Caught(stream)
  /\ UNCHANGED <<vectorStoreCache, currentCollection, isInitialized, produced, client>>
  /\ StreamFrame

\* the consumer goes away; the handler listens to no event of the connection
Disconnect ==
  /\ client.connected
  /\ stream.pc \notin {"new", "done"}
  /\ client' = [connected |-> FALSE, at |-> stream.pc, events |-> Len(events),
                produced |-> Len(produced)]
  /\ UNCHANGED <<stream, events, produced, vectorStoreCache, currentCollection,
                 isInitialized>>
  /\ StreamFrame

StreamNext ==
  \/ \E target \in CollectionTypes, valid \in BOOLEAN : StreamRequest(target, valid)
  \/ \E ok \in BOOLEAN : StreamConnectToExistingDone(ok)
  \/ \E ok \in BOOLEAN : StreamSwitchCollectionDone(ok)
  \/ \E ok \in BOOLEAN : StreamSimilaritySearchDone(ok)
  \/ \E ok \in BOOLEAN : ModelStreamDone(ok)
  \/ \E chunk \in Chunks : Pull(chunk)
  \/ PullThrow
  \/ PullEnd
  \/ \E ok \in BOOLEAN : StreamGetRelevantDocumentsDone(ok)
  \/ Disconnect

(***************************************************************************)
(* MenopauseSourceScraper.scrapeMultipleURLs (services/scraper) as the     *)
(* steps between its awaits.  The log lists the fetches: "fetch" when      *)
(* loader.load() is called, "end" when it has returned or thrown, "delay"  *)
(* when the timer of delay() has fired.                                    *)
(***************************************************************************)
ScraperSources == {pcosSources[1], pcosSources[2], breastCancerSources[2]}

UrlLists == UNION {[1..n -> ScraperSources] : n \in 0..MaxUrls}

\* the delay of the script (line 398), and none
Delays == {0, 2000}

NoScrape ==
  [pc |-> "idle", urls |-> <<>>, delayMs |-> 0, i |-> 0, allDocs |-> <<>>,
   outcomes |-> <<>>, log |-> <<>>, result |-> <<>>]

NoValidation ==
  [doc |-> [pageContent |-> [text |-> <<>>, hasTerms |-> FALSE, hasBoilerplate |-> FALSE],
            metadata |-> <<>>],
   called |-> FALSE,
   result |-> [isValid |-> FALSE, issues |-> <<>>, score |-> 0]]

NoDetection == [docs |-> <<>>, calls |-> <<>>]

\* Date.now() when the RateLimiter is made, in ms: more than any delay
StartTime == 5000

\* the advance of the clock in a step, in ms
TickMs == 1000

ThrottleCalls == 1..MaxThrottles

\* a throttle call not yet made
NoThrottleCall == [pc |-> "new", domain |-> "", minDelayMs |-> 0, wake |-> 0]

\* new RateLimiter(): an empty map, no call made, nothing returned
NoThrottle ==
  [now |-> StartTime, ticks |-> 0, lastRequestTime |-> <<>>,
   calls |-> [c \in ThrottleCalls |-> NoThrottleCall], returns |-> <<>>]

ScraperInit ==
  /\ scraper = NoScrape
  /\ validator = NoValidation
  /\ detector = NoDetection
  /\ limiter = NoThrottle

Fetch(type, i) == [type |-> type, i |-> i]

\* lines 57-58 and 22-25: the for-of loop takes the next source and scrapeURL
\* awaits loader.load(); line 67 when no source is left
NextSource(s) ==
  IF s.i < Len(s.urls)
  THEN [s EXCEPT !.pc = "load", !.i = s.i + 1,
                 !.log = Append(s.log, Fetch("fetch", s.i + 1))]
  ELSE [s EXCEPT !.pc = "returned", !.result = s.allDocs]

\* AfterScrape that does not wait between two sources
AfterScrapeNoDelay(s, docs, ok) ==
  NextSource([s EXCEPT !.allDocs = s.allDocs \o docs,
                       !.outcomes = Append(s.outcomes, ok)])

\* lines 59-64: scrapeURL has returned docs; they are pushed, and delay() is
\* awaited when delayMs > 0
AfterScrape(s, docs, ok) ==
  LET pushed == [s EXCEPT !.allDocs = s.allDocs \o docs,
                          !.outcomes = Append(s.outcomes, ok)]
  IN  IF s.delayMs > 0 THEN [pushed EXCEPT !.pc = "delay"] ELSE NextSource(pushed)

ScraperFrame == UNCHANGED <<ingestVars, trackerVars, ragVars, serviceVars, streamVars>>

\* scrapeMultipleURLs(urls, delayMs) is called and runs to its first await
ScrapeMultipleURLs ==
  /\ scraper.pc = "idle"
  /\ scraper' = NextSource(scraper)
  /\ UNCHANGED <<validator, detector, limiter>>
  /\ ScraperFrame

\* LoadDone whose catch throws the error again
LoadDoneRethrow(ok) ==
  /\ scraper.pc = "load"
  /\ LET ended == [scraper EXCEPT !.log = Append(scraper.log, Fetch("end", scraper.i))]
     IN  scraper' = IF ok THEN [ended EXCEPT !.pc = "split"]
                    ELSE [ended EXCEPT !.pc = "threw"]
  /\ UNCHANGED <<validator, detector, limiter>>
  /\ ScraperFrame

\* loader.load() returns (lines 28-38: the metadata, then splitDocuments is
\* awaited) or throws (lines 42-45: scrapeURL returns [])
LoadDone(ok) ==
  /\ scraper.pc = "load"
  /\ LET ended == [scraper EXCEPT !.log = Append(scraper.log, Fetch("end", scraper.i))]
     IN  scraper' = IF ok THEN [ended EXCEPT !.pc = "split"]
                    ELSE AfterScrape(ended, <<>>, FALSE)
  /\ UNCHANGED <<validator, detector, limiter>>
  /\ ScraperFrame

\* splitDocuments returns the chunks, which scrapeURL returns, or throws
SplitDocumentsDone(ok) ==
  /\ scraper.pc = "split"
  /\ scraper' = AfterScrape(scraper, scrapeURL(scraper.urls[scraper.i].url, ok), ok)
  /\ UNCHANGED <<validator, detector, limiter>>
  /\ ScraperFrame

\* the timer of delay() fires
DelayDone ==
  /\ scraper.pc = "delay"
  /\ scraper' = NextSource([scraper EXCEPT
                              !.log = Append(scraper.log, Fetch("delay", scraper.i))])
  /\ UNCHANGED <<validator, detector, limiter>>
  /\ ScraperFrame

ScraperNext ==
  \/ ScrapeMultipleURLs
  \/ \E ok \in BOOLEAN : LoadDone(ok)
  \/ \E ok \in BOOLEAN : SplitDocumentsDone(ok)
  \/ DelayDone

(***************************************************************************)
(* RateLimiter.throttle.  Time is the value of Date.now(), which the Tick  *)
(* step advances; a timer fires when its time has come, or later.          *)
(***************************************************************************)
ThrottleDomains == {"a.org", "b.org"}

\* the minDelayMs of the calls: the default and a shorter one
MinDelays == {1000, 2000}

\* this.lastRequestTime.get(domain) || 0
LastTimeOf(l, domain) ==
  IF domain \in DOMAIN l.lastRequestTime THEN l.lastRequestTime[domain] ELSE 0

\* line 239 and the return: lastRequestTime is set to Date.now()
ThrottleReturns(l, c, domain, minDelayMs) ==
  [l EXCEPT !.lastRequestTime = SetKey(l.lastRequestTime, domain, l.now),
            !.calls[c].pc = "done",
            !.returns = Append(l.returns, [domain |-> domain, at |-> l.now,
                                           minDelayMs |-> minDelayMs, call |-> c])]

LimiterFrame ==
  UNCHANGED <<ingestVars, trackerVars, ragVars, serviceVars, streamVars,
              scraper, validator, detector>>

\* lines 228-239: throttle(domain, minDelayMs) is called and runs to its
\* return, or to the await of its timer
Throttle(c, domain, minDelayMs) ==
  /\ limiter.calls[c].pc = "new"
  /\ LET called == [limiter EXCEPT !.calls[c].domain = domain,
                                   !.calls[c].minDelayMs = minDelayMs]
         timeSinceLastRequest == limiter.now - LastTimeOf(limiter, domain)
     IN  IF timeSinceLastRequest < minDelayMs
         THEN limiter' = [called EXCEPT
                            !.calls[c].pc = "wait",
                            !.calls[c].wake = limiter.now + (minDelayMs - timeSinceLastRequest)]
         ELSE limiter' = ThrottleReturns(called, c, domain, minDelayMs)
  /\ LimiterFrame

\* the timer of line 236 fires, and the call returns
ThrottleTimerFires(c) ==
  /\ limiter.calls[c].pc = "wait"
  /\ limiter.now >= limiter.calls[c].wake
  /\ limiter' = ThrottleReturns(limiter, c, limiter.calls[c].domain,
                                limiter.calls[c].minDelayMs)
  /\ LimiterFrame

\* time passes
Tick ==
  /\ limiter.ticks < MaxTicks
  /\ limiter' = [limiter EXCEPT !.now = limiter.now + TickMs, !.ticks = limiter.ticks + 1]
  /\ LimiterFrame

LimiterNext ==
  \/ \E c \in ThrottleCalls, domain \in ThrottleDomains, minDelayMs \in MinDelays :
       Throttle(c, domain, minDelayMs)
  \/ \E c \in ThrottleCalls : ThrottleTimerFires(c)
  \/ Tick

(***************************************************************************)
(* ContentValidator.validateContent on one document.                       *)
(***************************************************************************)
\* lengths around the limits of 100 and 500 characters
Lengths == {0, 99, 100, 499, 500}

TextOf(length) == IF length = 0 THEN <<>> ELSE <<[c |-> "t", n |-> length]>>

PageContents ==
  {[text |-> TextOf(length), hasTerms |-> terms, hasBoilerplate |-> boilerplate] :
     length \in Lengths, terms \in BOOLEAN, boilerplate \in BOOLEAN}

\* metadata with a field absent, empty or set
Field(name, value) == IF value = "absent" THEN <<>> ELSE name :> value

Metadatas ==
  {Field("organization", organization) @@ Field("source", source) :
     organization \in {"absent", "", "NCI"}, source \in {"absent", "", "b1"}}

ValidatorInputs ==
  {[pageContent |-> content, metadata |-> metadata] :
     content \in PageContents, metadata \in Metadatas}

\* validateContent(doc) is called
ValidateContent ==
  /\ ~validator.called
  /\ validator' = [validator EXCEPT !.called = TRUE,
                                    !.result = validateContent(validator.doc)]
  /\ UNCHANGED <<scraper, detector, limiter>>
  /\ ScraperFrame

ValidatorNext == ValidateContent

(***************************************************************************)
(* DuplicateDetector.removeDuplicates, called on a list and then again on  *)
(* the same list or on what it returned.                                   *)
(***************************************************************************)
\* chunks of which some share their first 200 characters, trimmed
DetectorDocs ==
  {<<"p1", 1>>, <<"p1", 2>>, <<"p1", 3>>, <<"p1", 4>>, <<"p2", 2>>, <<"b2", 2>>}

DetectorInputs == UNION {[1..n -> DetectorDocs] : n \in 0..MaxDocs}

\* RemoveDuplicates on a detector that keeps its set of seen hashes from one
\* call to the next
RemoveDuplicatesShared(again) ==
  /\ Len(detector.calls) < MaxCalls
  /\ again => detector.calls /= <<>>
  /\ LET docs == IF again THEN detector.calls[Len(detector.calls)].unique
                 ELSE detector.docs
         seen == UNION {{contentHash(Document(doc)) :
                           doc \in Range(detector.calls[c].unique)} :
                          c \in DOMAIN detector.calls}
         loop == dedupLoop(docs, 1, Len(docs), [seen |-> seen, unique |-> <<>>])
     IN  detector' = [detector EXCEPT
                        !.calls = Append(@, [docs |-> docs, unique |-> loop.unique])]
  /\ UNCHANGED <<scraper, validator, limiter>>
  /\ ScraperFrame

\* removeDuplicates is called: on the list, or on the result of the last call
RemoveDuplicates(again) ==
  /\ Len(detector.calls) < MaxCalls
  /\ again => detector.calls /= <<>>
  /\ LET docs == IF again THEN detector.calls[Len(detector.calls)].unique
                 ELSE detector.docs
     IN  detector' = [detector EXCEPT
                        !.calls = Append(@, [docs |-> docs,
                                             unique |-> removeDuplicates(docs)])]
  /\ UNCHANGED <<scraper, validator, limiter>>
  /\ ScraperFrame

DetectorNext == \E again \in BOOLEAN : RemoveDuplicates(again)

vars == <<ingestVars, trackerVars, ragVars, apiVars>>

Init == IngestInit /\ TrackerInit /\ RagInit /\ ServiceInit /\ StreamInit /\ ScraperInit

\* the script, run again and again
Next == IngestNext

Spec == Init /\ [][Next]_vars

\* a step of a scrapeSources call: the external call it awaits returns or
\* fails, and the code after the await runs
CallStep ==
  \/ \E answered \in BOOLEAN : CheckCollectionExists(answered)
  \/ \E loaded \in BOOLEAN : ScrapeURL(loaded)
  \/ Validate
  \/ \E ok \in BOOLEAN : StoreBatch(ok)
  \/ MarkAsScraped

\* the command lines that make one scrapeSources call, for a collection of
\* few pages
OneCallArgs ==
  {args \in Args : /\ args.topic \in {"breast-cancer", "pcos"}
                   /\ ~args.status /\ ~args.reset /\ ~args.help}

\* processes started with such a command line
FairNext ==
  \/ \E a \in OneCallArgs : Main(a)
  \/ Configure
  \/ CallStep

\* such processes where every external call a scrapeSources call awaits
\* returns or fails
FairSpec == Init /\ [][FairNext]_vars /\ WF_vars(CallStep)

\* the process is killed while it waits at an await: nothing it holds in
\* memory survives; 137 is the status of a killed process
Crash ==
  /\ UNCHANGED <<trackerVars, ragVars, apiVars>>
  /\ pc /= "idle"
  /\ outcome' = "crashed"
  /\ prevRun' = NoRun
  /\ Exit(137)
  /\ UNCHANGED <<file, store, configured, runs, data, onlyNew, collection,
                 collectionExists, sourcesToScrape, si, allDocs, bi, fetched, storeCalls,
                 marked, startFile, startData, runFile,
                 failure>>

\* the process is killed inside the writeFileSync of markAsScraped (line 267)
CrashInSaveTracking ==
  /\ UNCHANGED <<trackerVars, ragVars, apiVars>>
  /\ pc = "mark"
  /\ data' = markAsScraped(data, collectionName, sourcesToScrape, Len(allDocs))
  /\ file' = tornWrite(data')
  /\ outcome' = "crashed"
  /\ prevRun' = NoRun
  /\ Exit(137)
  /\ UNCHANGED <<store, configured, runs, onlyNew, collection, collectionExists,
                 sourcesToScrape, si, allDocs, bi, fetched, storeCalls, marked, startFile,
                 startData, runFile,
                 failure>>

\* the script, run again and again, where a process can be killed
CrashNext ==
  \/ IngestNext
  \/ Crash
  \/ CrashInSaveTracking

CrashSpec == Init /\ [][CrashNext]_vars

\* line 470: logScraperActivity({action: 'store'}) throws after the last batch
\* was stored, inside the try of lines 443-505 and before markAsScraped: the
\* catch logs, rethrows, and main ends the process with status 1
LogStoreThrows ==
  /\ UNCHANGED <<trackerVars, ragVars, apiVars>>
  /\ pc = "mark"
  /\ Fail("logerror")
  /\ UNCHANGED <<file, store, configured, runs, data, onlyNew, collection,
                 collectionExists, sourcesToScrape, si, allDocs, bi, fetched, storeCalls,
                 marked, startFile, startData, runFile,
                 failure>>

\* line 492: logScraperActivity({action: 'complete'}) throws after
\* markAsScraped has written the tracking file: the same catch and exit
LogCompleteThrows ==
  /\ UNCHANGED <<trackerVars, ragVars, apiVars>>
  /\ pc = "mark"
  /\ data' = markAsScraped(data, collectionName, sourcesToScrape, Len(allDocs))
  /\ file' = saveTracking(data')
  /\ marked' = Append(marked, [collection |-> collectionName,
                               sources |-> sourcesToScrape,
                               documentCount |-> Len(allDocs)])
  /\ Fail("logerror")
  /\ UNCHANGED <<store, configured, runs, onlyNew, collection, collectionExists,
                 sourcesToScrape, si, allDocs, bi, fetched, storeCalls, startFile,
                 startData, runFile,
                 failure>>

\* the script, run again and again, where a call of the logger can throw
LoggingNext ==
  \/ IngestNext
  \/ LogStoreThrows
  \/ LogCompleteThrows

LoggingSpec == Init /\ [][LoggingNext]_vars

\* the tracking file an earlier process left: one source of a collection marked
EarlierFile ==
  saveTracking(markAsScraped(EmptyTracking, "pcos_knowledge", <<pcosSources[1]>>, MaxCount))

\* new ScrapeTracker() where there is no tracking file, or the one an earlier
\* process left
TrackerStart ==
  /\ file \in {NoFile, EarlierFile}
  /\ data = loadTracking(file)
  /\ ProcessInit /\ TrackerInit /\ RagInit /\ ServiceInit /\ StreamInit /\ ScraperInit

\* a tracker object under method calls
TrackerSpec == TrackerStart /\ [][TrackerNext]_vars

\* the services earlier requests can have left: not initialized, connected
\* to the default collection, or with both collections in the cache
EarlierServices ==
  {[isInitialized |-> FALSE, vectorStoreCache |-> <<>>, currentCollection |-> "menopause"],
   [isInitialized |-> TRUE,
    vectorStoreCache |-> [c \in {"menopause"} |-> COLLECTION_NAMES(c)],
    currentCollection |-> "menopause"],
   [isInitialized |-> TRUE,
    vectorStoreCache |-> [c \in CollectionTypes |-> COLLECTION_NAMES(c)],
    currentCollection |-> "breast_cancer"]}

StreamStart ==
  /\ IngestInit /\ TrackerInit /\ ServiceInit /\ StreamInit /\ ScraperInit
  /\ req = [r \in Requests |-> NewRequest]
  /\ \E earlier \in EarlierServices :
       /\ isInitialized = earlier.isInitialized
       /\ vectorStoreCache = earlier.vectorStoreCache
       /\ currentCollection = earlier.currentCollection

\* one /query/stream request
StreamSpec == StreamStart /\ [][StreamNext]_vars

\* what a call of scrapeSources has left to store of the pages of sources
\* that all loaded (lines 398-426)
ChunksOf(sources) ==
  removeDuplicates(filterValidDocuments(
    Concat([i \in DOMAIN sources |-> scrapeURL(sources[i].url, TRUE)])))

\* the script, run again and again after a `scrape menopause` that succeeded
ResumeStart ==
  /\ store = "menopause_knowledge" :> ChunksOf(menopauseSources)
  /\ file = saveTracking(markAsScraped(EmptyTracking, "menopause_knowledge",
                                       menopauseSources, Len(ChunksOf(menopauseSources))))
  /\ data = EmptyTracking
  /\ NoProcess
  /\ TrackerInit /\ RagInit /\ ServiceInit /\ StreamInit /\ ScraperInit

ResumeSpec == ResumeStart /\ [][Next]_vars

\* the tracker after calls that marked the first m, b and p sources of the
\* three collections (0: no call for the collection)
MarkedFirst(d, c, count) ==
  IF count = 0 THEN d
  ELSE markAsScraped(d, collectionNameOf(c),
                     SubSeq(sourcesOf(c, Len(breastCancerSources)), 1, count), MaxCount)

TrackingsLeft ==
  {MarkedFirst(MarkedFirst(MarkedFirst(EmptyTracking, "menopause", m), "breast_cancer", b),
               "pcos", p) :
     m \in 0..Len(menopauseSources), b \in 0..Len(breastCancerSources),
     p \in 0..Len(pcosSources)}

\* processes started with --status or --reset, where earlier processes have
\* left no tracking file or one with some sources marked
ModeStart ==
  /\ file \in {NoFile} \cup {saveTracking(d) : d \in TrackingsLeft}
  /\ data = EmptyTracking
  /\ ProcessInit /\ TrackerInit /\ RagInit /\ ServiceInit /\ StreamInit /\ ScraperInit

ModeNext == \E a \in {args \in Args : args.status \/ args.reset} : Main(a)

ModeSpec == ModeStart /\ [][ModeNext]_vars

\* one scrapeMultipleURLs call, on any list of sources and with or without
\* a delay
ScraperStart ==
  /\ IngestInit /\ TrackerInit /\ RagInit /\ ServiceInit /\ StreamInit
  /\ scraper \in {[NoScrape EXCEPT !.urls = urls, !.delayMs = delayMs] :
                    urls \in UrlLists, delayMs \in Delays}
  /\ validator = NoValidation
  /\ detector = NoDetection
  /\ limiter = NoThrottle

ScraperSpec == ScraperStart /\ [][ScraperNext]_vars

\* validateContent on any document
ValidatorStart ==
  /\ IngestInit /\ TrackerInit /\ RagInit /\ ServiceInit /\ StreamInit
  /\ scraper = NoScrape
  /\ validator \in {[NoValidation EXCEPT !.doc = doc] : doc \in ValidatorInputs}
  /\ detector = NoDetection
  /\ limiter = NoThrottle

ValidatorSpec == ValidatorStart /\ [][ValidatorNext]_vars

\* removeDuplicates on any list of chunks
DetectorStart ==
  /\ IngestInit /\ TrackerInit /\ RagInit /\ ServiceInit /\ StreamInit
  /\ scraper = NoScrape
  /\ validator = NoValidation
  /\ detector \in {[NoDetection EXCEPT !.docs = docs] : docs \in DetectorInputs}
  /\ limiter = NoThrottle

DetectorSpec == DetectorStart /\ [][DetectorNext]_vars

\* a RateLimiter under throttle calls
LimiterSpec == Init /\ [][LimiterNext]_vars

\* one /query request to a server earlier requests have used or not
OneQuerySpec == StreamStart /\ [][OneQueryNext]_vars

\* a RAGService object under method calls
ServiceSpec == Init /\ [][ServiceNext]_vars

\* the server under concurrent /query requests
RagSpec == Init /\ [][RagNext]_vars

(***************************************************************************)
(* Properties of scrapeSources and main.                                   *)
(***************************************************************************)
\* the store calls of the call under way that failed
FailedStoreCalls == {i \in DOMAIN storeCalls : ~storeCalls[i].ok}

\* the tracker, in memory and on disk, is as it was when the call began
TrackerUntouched == marked = <<>> /\ data = startData /\ file = startFile

\* the process has ended with status 1
ExitedWithOne == pc = "idle" /\ exitCode = 1

\* C2: when the store call of a batch of a scrapeSources call has failed,
\* markAsScraped was not called by that call, the tracker's data and the
\* tracking file are those from before the call, and the process has ended
\* with status 1.
C2_StoreFailureLeavesTracker ==
  FailedStoreCalls /= {} => TrackerUntouched /\ ExitedWithOne /\ outcome = "storeerror"

\* a later append failed in a call that began with a non-empty tracking file
C2_Witness ==
  /\ FailedStoreCalls = {3}
  /\ storeCalls[3].kind = "addDocuments"
  /\ DOMAIN startData.scrapedUrls /= {}
  /\ startFile.exists

\* validation and deduplication of the call are over
Validated == pc \in {"store", "mark", "returned", "idle"} /\ fetched /= <<>>

\* C3: when no chunk is left after filterValidDocuments and removeDuplicates,
\* the process has ended with status 1, no store call was made, and the
\* tracker and the tracking file are those from before the call.
C3_EmptyResultFails ==
  Validated /\ allDocs = <<>> =>
    /\ ExitedWithOne /\ outcome = "empty"
    /\ storeCalls = <<>>
    /\ TrackerUntouched

\* pages were loaded, every chunk was rejected, with a tracking file present
C3_Witness ==
  /\ Validated /\ allDocs = <<>>
  /\ \E i \in DOMAIN fetched : fetched[i].loaded
  /\ startFile.exists

\* the call at its existence check follows a non-forced successful call for the
\* same collection, itself being non-forced
SecondRun ==
  /\ pc = "check"
  /\ onlyNew
  /\ prevRun.collection = collection
  /\ prevRun.outcome = "success"

\* the step makes no fetch, no store write and no tracker change, and reports
\* that everything is scraped already
NothingToDo ==
  /\ outcome' = "already"
  /\ fetched' = <<>> /\ storeCalls' = <<>> /\ marked' = <<>>
  /\ store' = store /\ file' = file /\ data' = data
  /\ pc' \in {"idle", "returned"}
  /\ pc' = "idle" => exitCode' = 0

RECURSIVE StoredBy(_)
StoredBy(calls) ==
  IF calls = <<>> THEN <<>>
  ELSE StoredBy(SubSeq(calls, 1, Len(calls) - 1))
       \o (IF calls[Len(calls)].ok THEN calls[Len(calls)].batch ELSE <<>>)

\* C5: markAsScraped is called at most once in a call, when the store call of
\* every batch, the last included, has succeeded, with the sources the call
\* fetched (sourcesToScrape) and the number of chunks the call stored.
C5_MarkedOnceAfterLastBatch ==
  /\ Len(marked) <= 1
  /\ marked /= <<>> =>
       /\ FailedStoreCalls = {}
       /\ storeCalls /= <<>>
       /\ StoredBy(storeCalls) = allDocs
       /\ marked[1].collection = collectionName
       /\ marked[1].sources = sourcesToScrape
       /\ SourceUrls(marked[1].sources) =
            [i \in DOMAIN fetched |-> fetched[i].url]
       /\ marked[1].documentCount = Len(StoredBy(storeCalls))

\* a call that fetched and marked only a part of the configured sources
C5_Witness ==
  /\ Len(marked) = 1
  /\ marked[1].sources /= sourcesOf(collection, configured)
  /\ marked[1].documentCount > 0

\* C6: the store calls of a call are the batches of BATCH_SIZE chunks of the
\* list in list order, each issued after the one before it had ended well, the
\* first with fromDocuments and the others with addDocuments; a call that
\* succeeded has made ceil(n / BATCH_SIZE) of them, which together are the
\* list, all of BATCH_SIZE chunks but a last one of n mod BATCH_SIZE if not 0.
C6_Batches ==
  LET n == Len(allDocs)
      count == (n + BATCH_SIZE - 1) \div BATCH_SIZE
  IN  /\ \A i \in DOMAIN storeCalls :
           /\ storeCalls[i].batch = SubSeq(allDocs, BATCH_SIZE * (i - 1) + 1,
                                           Min(BATCH_SIZE * i, n))
           /\ storeCalls[i].kind = IF i = 1 THEN "fromDocuments" ELSE "addDocuments"
           /\ i < Len(storeCalls) => storeCalls[i].ok
           /\ Len(storeCalls[i].batch) =
                IF i < count \/ n % BATCH_SIZE = 0 THEN BATCH_SIZE ELSE n % BATCH_SIZE
           /\ i <= count
      /\ Len(storeCalls) = bi \div BATCH_SIZE + (IF FailedStoreCalls = {} THEN 0 ELSE 1)
      /\ outcome = "success" =>
           /\ n > 0
           /\ Len(storeCalls) = count
           /\ StoredBy(storeCalls) = allDocs

\* a call that succeeded with three store calls, the last one a short batch
C6_Witness ==
  /\ outcome = "success"
  /\ Len(storeCalls) = 3
  /\ Len(storeCalls[3].batch) < BATCH_SIZE
  /\ Len(storeCalls[1].batch) = BATCH_SIZE

\* the tracking data on disk
Tracked == loadTracking(file)

\* some chunk of url is in the collection
HasChunkOf(name, url) ==
  /\ name \in DOMAIN store
  /\ \E i \in DOMAIN store[name] : Document(store[name][i]).metadata.source = url

\* C7 as stated: every URL of scrapedUrls[collection] was loaded, and a chunk
\* of it was stored in the collection, by a call that succeeded.
C7_Original ==
  \A name \in DOMAIN Tracked.scrapedUrls :
    \A i \in DOMAIN Tracked.scrapedUrls[name] :
      HasChunkOf(name, Tracked.scrapedUrls[name][i])

(***************************************************************************)
(* Properties of ScrapeTracker.                                            *)
(***************************************************************************)
UrlsOf(sources) == Range(SourceUrls(sources))

\* scrapedUrls[c] of a scrapedUrls object
UrlsIn(scrapedUrls, c) == IF c \in DOMAIN scrapedUrls THEN Range(scrapedUrls[c]) ELSE {}

\* the members of T, in order, whose URL is not in urls
Without(T, urls) ==
  LET Other(source) == source.url \notin urls
  IN  SelectSeq(T, Other)

\* a getUnscrapedSources(c, T) call comes right after markAsScraped(c, S, n)
MarkThenGet ==
  /\ last.op = "markAsScraped"
  /\ last'.op = "getUnscrapedSources"
  /\ last'.collection = last.collection

\* C8: getUnscrapedSources(c, T) right after markAsScraped(c, S, n) returns the
\* members of T whose URL is neither in S nor was tracked for c before, which
\* is the empty list for T = S.
C8_RoundTrip ==
  [][MarkThenGet =>
       /\ last'.result = Without(last'.sources,
                                 UrlsOf(last.sources) \cup UrlsIn(last.before, last.collection))
       /\ last'.sources = last.sources => last'.result = <<>>]_vars

\* after a markAsScraped on a collection that had a URL tracked, a list with
\* that URL and an untracked one gave the untracked one
C8_Witness ==
  /\ last.op = "getUnscrapedSources" /\ last.follows = "markAsScraped"
  /\ UrlsIn(last.earlier, last.collection) /= {}
  /\ UrlsIn(last.earlier, last.collection) /= UrlsIn(last.before, last.collection)
  /\ Len(last.result) = 0 /\ Len(last.sources) = MaxList

\* a getUnscrapedSources(c, T) call comes right after reset(c) or reset()
ResetThenGet ==
  /\ last.op = "reset"
  /\ last'.op = "getUnscrapedSources"
  /\ last.collection \in {last'.collection, ""}

\* C9: getUnscrapedSources(c, T) right after reset(c), or after reset() for
\* any c, returns T as it is.
C9_ResetGivesAll == [][ResetThenGet => last'.result = last'.sources]_vars

\* the list came back whole after a reset of a collection that tracked a URL of it
C9_Witness ==
  /\ last.op = "getUnscrapedSources" /\ last.follows = "reset"
  /\ UrlsIn(last.earlier, last.collection) \cap UrlsOf(last.sources) /= {}
  /\ last.result = last.sources

NoDuplicates(seq) == \A i, j \in DOMAIN seq : seq[i] = seq[j] => i = j

\* C10: scrapedUrls[c] never holds a URL twice, and a step other than a reset
\* keeps every URL scrapedUrls[c] holds.
C10_SetThatGrows ==
  /\ [](\A c \in DOMAIN data.scrapedUrls : NoDuplicates(data.scrapedUrls[c]))
  /\ [][last'.op /= "reset" =>
          \A c \in DOMAIN data.scrapedUrls :
            UrlsIn(data.scrapedUrls, c) \subseteq UrlsIn(data'.scrapedUrls, c)]_vars

\* a markAsScraped call that brought a URL tracked before and a new one
C10_Witness ==
  /\ last.op = "markAsScraped"
  /\ UrlsIn(last.before, last.collection) \cap UrlsOf(last.sources) /= {}
  /\ UrlsIn(last.before, last.collection) /= UrlsIn(data.scrapedUrls, last.collection)

\* the entries of every collection but c are the same in both objects
SameButFor(old, new, c) ==
  /\ DOMAIN old \ {c} = DOMAIN new \ {c}
  /\ \A d \in DOMAIN old \ {c} : new[d] = old[d]

MarkEffect(c, S, n) ==
  /\ c \in DOMAIN data'.scrapedUrls
  /\ UrlsIn(data'.scrapedUrls, c) = UrlsIn(data.scrapedUrls, c) \cup UrlsOf(S)
  /\ c \in DOMAIN data'.lastScraped
  /\ data'.lastScraped[c].urlCount = Len(S)
  /\ data'.lastScraped[c].documentCount = n
  /\ SameButFor(data.scrapedUrls, data'.scrapedUrls, c)
  /\ SameButFor(data.lastScraped, data'.lastScraped, c)

ResetEffect(c) ==
  /\ c \notin DOMAIN data'.scrapedUrls \cup DOMAIN data'.lastScraped
  /\ SameButFor(data.scrapedUrls, data'.scrapedUrls, c)
  /\ SameButFor(data.lastScraped, data'.lastScraped, c)

\* C11: markAsScraped(c, S, n) makes scrapedUrls[c] the union of what it was
\* and the URLs of S, sets lastScraped[c] to the counts |S| and n of this
\* call, and leaves the entries of every other collection as they were;
\* reset(c) removes c's entries and leaves the others as they were.
C11_FrameOfMutations ==
  [][/\ last'.op = "markAsScraped" =>
          \A n \in DocumentCounts :
            TrackerMarkAsScraped(last'.collection, last'.sources, n)
              => MarkEffect(last'.collection, last'.sources, n)
     /\ last'.op = "reset" /\ last'.collection /= "" =>
          (TrackerReset(last'.collection) => ResetEffect(last'.collection))]_vars

\* a markAsScraped on a collection tracked before, with counts other than the
\* URLs tracked, while another collection is tracked
C11_Witness ==
  /\ last.op = "markAsScraped"
  /\ UrlsIn(last.before, last.collection) /= {}
  /\ UrlsIn(last.before, last.collection) /= UrlsIn(data.scrapedUrls, last.collection)
  /\ data.lastScraped[last.collection].urlCount
       < Len(data.scrapedUrls[last.collection])
  /\ data.lastScraped[last.collection].documentCount = 0
  /\ DOMAIN last.before \ {last.collection} /= {}

\* C12: when markAsScraped or reset has returned, the tracking file exists
\* and its text is the encoding of the tracker's data, which parses back to
\* that data.
C12_FileIsData ==
  last.op \in {"markAsScraped", "reset"} =>
    /\ file.exists
    /\ file.text = JSONstringify(data)
    /\ JSONparse(file.text) = data

\* a reset of one collection that left another one tracked, in memory and in
\* the file
C12_Witness ==
  /\ last.op = "reset" /\ last.collection /= ""
  /\ last.before /= data.scrapedUrls
  /\ data.lastScraped /= <<>>
  /\ loadTracking(file) = data

\* C13 as stated: after a killed process, what loadTracking reads holds, for
\* every collection, every URL the file held when that process began.
C13_Original ==
  pc = "idle" /\ exitCode = 137 =>
    \A c \in DOMAIN loadTracking(runFile).scrapedUrls :
      UrlsIn(loadTracking(runFile).scrapedUrls, c)
        \subseteq UrlsIn(loadTracking(file).scrapedUrls, c)

\* the URLs scrapeURL was called with, in call order
FetchedUrls == [i \in DOMAIN fetched |-> fetched[i].url]

\* the sources a call has to fetch when `exists` says whether the collection
\* exists: the configured ones, without the tracked ones unless forced
ToFetch(exists) ==
  LET configuredSources == sourcesOf(collection, configured)
  IN  IF onlyNew /\ exists
      THEN Without(configuredSources, UrlsIn(data.scrapedUrls, collectionName))
      ELSE configuredSources

\* the call has fetched ToFetch(exists), as far as its loop has come
FetchedAre(exists) ==
  LET expected == SourceUrls(ToFetch(exists))
  IN  FetchedUrls = IF pc = "scrape" THEN Slice(expected, 0, si - 1) ELSE expected

C14_WitnessForce ==
  /\ pc = "validate" /\ ~onlyNew /\ collectionExists
  /\ Range(FetchedUrls) \cap UrlsIn(data.scrapedUrls, collectionName) /= {}

(***************************************************************************)
(* Properties of RAGService under method calls.                            *)
(***************************************************************************)
\* a switchCollection call whose connect threw
FailedSwitch == method.op = "switchCollection" /\ method.outcome = "threw"

\* C15: a switchCollection(c) whose connect fails throws the error
\* "Collection 'c' not found or unavailable" and leaves currentCollection and
\* the cache as the call found them, so that the next query or
\* getRelevantDocuments call uses the store of the collection active before.
C15_FailedSwitchKeepsActive ==
  /\ [](FailedSwitch =>
          /\ method.error = "not found or unavailable"
          /\ currentCollection = method.active
          /\ method.target \notin DOMAIN vectorStoreCache)
  /\ [][/\ method.op = "switchCollection" /\ method.outcome = "running"
           /\ method'.outcome = "threw"
           => UNCHANGED <<vectorStoreCache, currentCollection>>
        /\ FailedSwitch /\ method'.op \in {"query", "getRelevantDocuments"}
           /\ method.active \in DOMAIN vectorStoreCache
           => /\ method'.vectorStore = vectorStoreCache[method.active]
              /\ method'.did = <<Awaited("similaritySearch",
                                         vectorStoreCache[method.active])>>]_vars

\* a switch to a collection not active failed on a connected service, which
\* is still on the collection it was on
C15_Witness ==
  /\ FailedSwitch
  /\ method.connected /\ method.active /= method.target
  /\ getVectorStore(Service) = COLLECTION_NAMES(method.active)

\* a switchCollection call has just been made for a collection in the cache
SwitchToCached ==
  /\ methods' = methods + 1
  /\ method'.op = "switchCollection"
  /\ method'.target \in DOMAIN vectorStoreCache

\* C16: switchCollection(c) with c in the cache returns with c active, without
\* a call of fromExistingCollection and with the cache as it was (with c
\* active already, nothing changes); no step takes an entry out of the cache.
C16_CachedSwitch ==
  [][/\ SwitchToCached =>
          /\ method'.outcome = "returned" /\ method'.did = <<>>
          /\ currentCollection' = method'.target
          /\ vectorStoreCache' = vectorStoreCache
          /\ currentCollection = method'.target => UNCHANGED currentCollection
     /\ DOMAIN vectorStoreCache \subseteq DOMAIN vectorStoreCache']_vars

\* a switch to a cached collection other than the active one returned at once
C16_Witness ==
  /\ method.op = "switchCollection" /\ method.outcome = "returned"
  /\ method.did = <<>>
  /\ method.active /= method.target
  /\ currentCollection = method.target
  /\ method.active \in DOMAIN vectorStoreCache

\* C17: query, queryStream, getRelevantDocuments and addDocuments, called
\* while no connection is cached for the active collection, throw "No
\* collection connected" without a similarity search, a generation call or a
\* store write; that is the case exactly while the cache is empty.
C17_NeedsConnection ==
  /\ method.op \in StoreMethods /\ ~method.connected =>
       /\ method.outcome = "threw"
       /\ method.error = "No collection connected"
       /\ method.did = <<>>
  /\ currentCollection \in DOMAIN vectorStoreCache \/ vectorStoreCache = <<>>

\* addDocuments threw on a service whose connect had failed
C17_Witness ==
  /\ method.op = "addDocuments" /\ method.outcome = "threw"
  /\ ~method.connected /\ methods > 1
  /\ vectorStoreCache = <<>>

(***************************************************************************)
(* Properties of POST /query/stream.                                       *)
(***************************************************************************)
EventTypes == [i \in DOMAIN events |-> events[i].type]

\* how many chunk events the sequence of types begins with
LeadingChunks(types) ==
  CHOOSE n \in 0..Len(types) :
    /\ \A i \in 1..n : types[i] = "chunk"
    /\ n < Len(types) => types[n + 1] /= "chunk"

\* the types after the leading chunk events
AfterChunks(types) == SubSeq(types, LeadingChunks(types) + 1, Len(types))

\* C18 as stated: a request that passed validation has written, when it is
\* over, chunk events, then one sources event and one done event, or, after
\* an error, chunk events and at most one sources event and then one error
\* event; a done or error event is the last event written.
C18_Original ==
  /\ stream.pc = "done" /\ stream.valid =>
       AfterChunks(EventTypes) \in {<<"sources", "done">>, <<"error">>,
                                    <<"sources", "error">>}
  /\ \A i \in DOMAIN events : events[i].type \in {"done", "error"} => i = Len(events)

Contents(seq) == [i \in DOMAIN seq |-> seq[i].content]

\* the string fragments the stream of the model has produced, in order
StringFragments ==
  LET IsString(chunk) == chunk.string
  IN  Contents(SelectSeq(produced, IsString))

\* the contents of the chunk events written, in order
ChunkEvents ==
  LET IsChunk(event) == event.type = "chunk"
  IN  Contents(SelectSeq(events, IsChunk))

\* C19: at every moment the chunk events written are the string fragments
\* produced so far, in their order, so each is written before the next chunk
\* is awaited; fullAnswer is their concatenation, and the answer is classified
\* on it.
C19_FragmentsInOrder ==
  /\ ChunkEvents = StringFragments
  /\ stream.fullAnswer = Concat(StringFragments)
  /\ stream.pc = "sources" => isAnsweredFromContext(Concat(StringFragments))
  /\ AfterChunks(EventTypes) = <<"done">> => ~isAnsweredFromContext(Concat(StringFragments))

\* "Cannot " and "answer" came with a chunk that is no string between them:
\* two chunk events, and the answer was classified as not from the context
C19_Witness ==
  /\ produced = <<StringChunk(<<"Cannot ">>), OtherChunk, StringChunk(<<"answer">>)>>
  /\ EventTypes = <<"chunk", "chunk", "done">>
  /\ client.connected

\* C20 as stated: once the consumer has disconnected while the handler was
\* awaiting a chunk of the stream, no chunk, sources or done event is written,
\* and no chunk is pulled but the one that was awaited then.
C20_Original ==
  ~client.connected /\ client.at = "pull" =>
    /\ \A i \in (client.events + 1)..Len(events) : events[i].type = "error"
    /\ Len(produced) <= client.produced + 1

HasSourcesEvent == \E i \in DOMAIN events : events[i].type = "sources"

C21_GroundingQuery ==
  \A r \in Requests :
    /\ req[r].pc = "sources" \/ req[r].sourced /= "none" =>
         isAnsweredFromContext(req[r].answer)
    /\ req[r].status = 200 =>
         IF isAnsweredFromContext(req[r].answer)
         THEN req[r].sourced = req[r].vectorStore /\ req[r].sourced /= "none"
         ELSE req[r].sourced = "none"

\* C22 as stated, for /query: a request whose question does not pass the
\* validation is answered with status 400, and no similarity search or
\* generation call was made for it.
C22_Original ==
  \A r \in Requests :
    ~req[r].valid /\ req[r].pc = "done" =>
      /\ req[r].status = 400
      /\ req[r].searched = "none" /\ req[r].answer = <<>>

\* every batch of the call was stored and the call is over
AllStored ==
  /\ pc \in {"idle", "returned"}
  /\ storeCalls /= <<>>
  /\ FailedStoreCalls = {}
  /\ StoredBy(storeCalls) = allDocs

\* C23 as stated: whether or not a call of the logger throws, a call of
\* scrapeSources whose batches were all stored has called markAsScraped and
\* has not ended the process with status 1.
C23_Original ==
  AllStored => Len(marked) = 1 /\ outcome = "success" /\ exitCode /= 1

(***************************************************************************)
(* Properties of RAGService under concurrent requests.                     *)
(***************************************************************************)
\* part of the retrieval of request r ran against another collection than
\* the one r named
Misrouted(r) ==
  \/ req[r].searched \notin {"none", COLLECTION_NAMES(req[r].collection)}
  \/ req[r].medicalTopic \notin {"none", MedicalTopic(req[r].collection)}
  \/ req[r].sourced \notin {"none", COLLECTION_NAMES(req[r].collection)}

\* C1: with one RAGService, a request's retrieval is misrouted only when
\* another request's call overwrote currentCollection after the request's own
\* switchCollection had returned and before its response; two requests that
\* name different collections do reach that (the witness): the search of
\* query() uses the store taken before its first await, the prompt's topic
\* and getRelevantDocuments use the overwritten pointer.
C1_RaceOnCurrentCollection ==
  \A r \in Requests :
    /\ Misrouted(r) => req[r].overwritten /= "no"
    /\ req[r].searched \in {"none", COLLECTION_NAMES(req[r].collection)}

\* request A searched its own collection, then B's switchCollection came, and
\* A's prompt topic and A's sources are from B's collection
C1_Witness ==
  \E a, b \in Requests :
    /\ req[a].collection /= req[b].collection
    /\ req[b].collection /= ""
    /\ req[a].overwritten = "switchCollection"
    /\ req[a].searched = COLLECTION_NAMES(req[a].collection)
    /\ req[a].medicalTopic = MedicalTopic(req[b].collection)
    /\ req[a].sourced = COLLECTION_NAMES(req[b].collection)
    /\ req[a].status = 200

\* the chunks scrapeURL returned for the j-th source of the call
ScrapedOf(j) ==
  IF scraper.outcomes[j] THEN scrapeURL(scraper.urls[j].url, TRUE) ELSE <<>>

\* C24: scrapeURL never throws, a failed source gives no chunk, and
\* scrapeMultipleURLs goes on with the sources after it: the accumulated list
\* is the concatenation, in list order, of the chunks of the sources that
\* succeeded, and the call returns it after the last source.
C24_FailuresAreSkipped ==
  /\ scraper.pc /= "threw"
  /\ scraper.allDocs = Concat([j \in DOMAIN scraper.outcomes |-> ScrapedOf(j)])
  /\ scraper.pc = "returned" =>
       /\ Len(scraper.outcomes) = Len(scraper.urls)
       /\ scraper.result = scraper.allDocs

\* a call that returned the chunks of its second and third source after the
\* load of the first had failed
C24_Witness ==
  /\ scraper.pc = "returned"
  /\ scraper.outcomes = <<FALSE, TRUE, TRUE>>
  /\ scraper.urls[2] /= scraper.urls[3]
  /\ scraper.result = ScrapedOf(2) \o ScrapedOf(3)
  /\ ScrapedOf(2) /= <<>> /\ ScrapedOf(3) /= <<>>

\* the fetches begun and not ended
FetchesInFlight ==
  {i \in 1..Len(scraper.urls) :
     /\ \E k \in DOMAIN scraper.log : scraper.log[k] = Fetch("fetch", i)
     /\ ~\E k \in DOMAIN scraper.log : scraper.log[k] = Fetch("end", i)}

\* fetch, end and (with a delay) the elapsed delay of sources from..n, one
\* source after the other
RECURSIVE OneByOne(_, _, _)
OneByOne(from, n, delayed) ==
  IF from > n THEN <<>>
  ELSE <<Fetch("fetch", from), Fetch("end", from)>>
       \o (IF delayed THEN <<Fetch("delay", from)>> ELSE <<>>)
       \o OneByOne(from + 1, n, delayed)

\* C25: scrapeMultipleURLs fetches the sources one at a time in list order:
\* the fetch of a source begins after the fetch of the one before it has
\* ended, well or not, and the delay (when one is configured) has elapsed
\* after that; two fetches are never in flight together.
C25_OneFetchAtATime ==
  LET expected == OneByOne(1, Len(scraper.urls), scraper.delayMs > 0)
  IN  /\ Cardinality(FetchesInFlight) <= 1
      /\ Len(scraper.log) <= Len(expected)
      /\ scraper.log = SubSeq(expected, 1, Len(scraper.log))
      /\ scraper.pc = "returned" => scraper.log = expected

\* the third fetch is in flight after a failed and a successful one, each
\* followed by its delay
C25_Witness ==
  /\ scraper.pc = "load" /\ scraper.i = 3
  /\ scraper.delayMs > 0
  /\ scraper.outcomes = <<FALSE, TRUE>>
  /\ FetchesInFlight = {3}
  /\ Len(scraper.log) = 7

\* the first 200 characters of the chunk's content, trimmed
Fingerprint(ref) == Trim(Substring0(Document(ref).pageContent.text, 200))

\* C26: removeDuplicates returns a list that is not longer than the one it was
\* given and in which no two chunks have the same fingerprint.
C26_NoTwoAlike ==
  \A c \in DOMAIN detector.calls :
    LET unique == detector.calls[c].unique
    IN  /\ Len(unique) <= Len(detector.calls[c].docs)
        /\ \A i, j \in DOMAIN unique :
             i /= j => Fingerprint(unique[i]) /= Fingerprint(unique[j])

\* a list of three different chunks, two with the same fingerprint, of which
\* two are returned
C26_Witness ==
  /\ detector.calls /= <<>>
  /\ Len(detector.calls[1].docs) = 3
  /\ Cardinality(Range(detector.calls[1].docs)) = 3
  /\ Len(detector.calls[1].unique) = 2
  /\ \E i, j \in 1..3 :
       /\ i < j
       /\ Document(detector.docs[i]).pageContent /= Document(detector.docs[j]).pageContent
       /\ Fingerprint(detector.docs[i]) = Fingerprint(detector.docs[j])

\* the chunks of list that no chunk before them matches in fingerprint
FirstOccurrences(list) ==
  LET IsFirst(i) == \A j \in 1..(i - 1) : Fingerprint(list[j]) /= Fingerprint(list[i])
      RECURSIVE Firsts(_)
      Firsts(i) == IF i > Len(list) THEN <<>>
                   ELSE (IF IsFirst(i) THEN <<list[i]>> ELSE <<>>) \o Firsts(i + 1)
  IN  Firsts(1)

\* C27: removeDuplicates returns, in the order of its input, the first chunk
\* of each fingerprint and nothing else; called on what it returned it
\* returns the same list, and two calls on one list return the same.
C27_FirstOccurrencesInOrder ==
  \A c \in DOMAIN detector.calls :
    /\ detector.calls[c].unique = FirstOccurrences(detector.calls[c].docs)
    /\ \A d \in DOMAIN detector.calls :
         /\ detector.calls[d].docs = detector.calls[c].docs =>
              detector.calls[d].unique = detector.calls[c].unique
         /\ detector.calls[d].docs = detector.calls[c].unique =>
              detector.calls[d].unique = detector.calls[c].unique

\* a list whose second chunk repeats the fingerprint of the first and whose
\* third does not: the first and the third are returned, and a second call on
\* them returns them again
C27_Witness ==
  /\ Len(detector.calls) = 2
  /\ Len(detector.docs) = 3
  /\ detector.docs[1] /= detector.docs[2]
  /\ Fingerprint(detector.docs[1]) = Fingerprint(detector.docs[2])
  /\ detector.calls[1].unique = <<detector.docs[1], detector.docs[3]>>
  /\ detector.calls[2].docs = detector.calls[1].unique
  /\ detector.calls[2].unique = detector.calls[1].unique

\* the penalties that apply to the document, each with its issue
Penalties(doc) ==
  LET length == StrLen(doc.pageContent.text)
      Missing(field) == field \notin DOMAIN doc.metadata \/ doc.metadata[field] = ""
  IN  (IF length < 100
       THEN {[points |-> 30, issue |-> "Content too short (< 100 chars)"]} ELSE {})
      \cup (IF ~doc.pageContent.hasTerms
            THEN {[points |-> 40, issue |-> "No menopause-related medical terms found"]}
            ELSE {})
      \cup (IF doc.pageContent.hasBoilerplate /\ length < 500
            THEN {[points |-> 50, issue |-> "Appears to be navigation/boilerplate content"]}
            ELSE {})
      \cup (IF Missing("organization")
            THEN {[points |-> 20, issue |-> "Missing organization metadata"]} ELSE {})
      \cup (IF Missing("source")
            THEN {[points |-> 20, issue |-> "Missing source URL"]} ELSE {})

RECURSIVE Points(_)
Points(penalties) ==
  IF penalties = {} THEN 0
  ELSE LET p == CHOOSE q \in penalties : TRUE
       IN  p.points + Points(penalties \ {p})

\* C28: the score validateContent returns is 100 less the penalties that
\* apply, each decided on its own; the issues are one string per penalty that
\* applies; isValid is true exactly when the score is 50 or more.
C28_ScoreIsHundredLessPenalties ==
  validator.called =>
    LET penalties == Penalties(validator.doc)
        result == validator.result
    IN  /\ result.score = 100 - Points(penalties)
        /\ Len(result.issues) = Cardinality(penalties)
        /\ Range(result.issues) = {p.issue : p \in penalties}
        /\ result.isValid <=> result.score >= 50

\* a short cookie banner without keyword, organization or source: every
\* penalty applies and the score is negative
C28_Witness ==
  /\ validator.called
  /\ Cardinality(Penalties(validator.doc)) = 5
  /\ validator.result.score = -60
  /\ ~validator.result.isValid

\* a long page with boilerplate language and no keyword is valid with a
\* score of 60
C28_WitnessBoilerplate ==
  /\ validator.called
  /\ validator.doc.pageContent.hasBoilerplate
  /\ validator.result.score = 60
  /\ validator.result.isValid

\* the requests answered 200 with an answer taken from the context
Grounded == {r \in Requests : /\ req[r].pc = "done" /\ req[r].status = 200
                              /\ isAnsweredFromContext(req[r].answer)}

\* C29: the sources of the response to a grounded answer are one entry per
\* chunk getRelevantDocuments got from the store, in the store's order, with
\* the ids 1 to n, the content of the chunk, and its organization metadata or
\* 'Unknown Source' when the chunk has none.
C29_SourcesFollowRanking ==
  \A r \in Grounded :
    /\ Len(req[r].sources) = Len(req[r].results)
    /\ \A i \in DOMAIN req[r].sources :
         LET entry == req[r].sources[i]
             chunk == req[r].results[i]
         IN  /\ entry.id = i
             /\ entry.content = chunk.pageContent
             /\ entry.organization =
                  IF "organization" \in DOMAIN chunk.metadata
                  THEN chunk.metadata.organization ELSE "Unknown Source"

\* a response whose first source has no organization and whose second has
C29_Witness ==
  \E r \in Grounded :
    /\ Len(req[r].sources) = 2
    /\ req[r].sources[1].organization = "Unknown Source"
    /\ req[r].sources[2].organization = "American Cancer Society"
    /\ req[r].sources[2].id = 2

\* the process makes no fetch and no call of the vector store, and ends
NoIngestion ==
  /\ store' = store
  /\ fetched' = <<>> /\ storeCalls' = <<>> /\ marked' = <<>>
  /\ pc' = "idle" /\ exitCode' = 0

\* the tracker is what the process loaded from the tracking file, which is
\* not written
StatusOnly ==
  /\ NoIngestion
  /\ file' = file
  /\ data' = loadTracking(file)

\* the tracking file holds what it held without the collection of the topic,
\* or nothing when no topic or "all" is given
ResetOnly(topic) ==
  LET before == loadTracking(file)
      after == loadTracking(file')
      name == resetNameOf(topic)
  IN  /\ NoIngestion
      /\ file'.exists /\ data' = after
      /\ IF topic \in {"", "all"}
         THEN after = EmptyTracking
         ELSE /\ name \notin DOMAIN after.scrapedUrls \cup DOMAIN after.lastScraped
              /\ \A c \in DOMAIN before.scrapedUrls \ {name} :
                   c \in DOMAIN after.scrapedUrls /\ after.scrapedUrls[c] = before.scrapedUrls[c]
              /\ \A c \in DOMAIN before.lastScraped \ {name} :
                   c \in DOMAIN after.lastScraped /\ after.lastScraped[c] = before.lastScraped[c]

\* C30: a process started with --status only reports: it makes no fetch and
\* no call of the vector store and leaves the tracker and its file as they
\* are, whatever topic, --force or --reset comes with it; a process started
\* with --reset (and no --status) clears the tracking of the topic, or all of
\* it when no topic or "all" is given, and makes no fetch and no call of the
\* vector store.
C30_StatusAndResetOnly ==
  [][\A a \in Args :
       Main(a) => /\ a.status => StatusOnly
                  /\ ~a.status /\ a.reset => ResetOnly(a.topic)]_vars

\* a process has removed one collection of the three the tracking file held
\* when it started, and has left the two others
C30_Witness ==
  /\ pc = "idle" /\ exitCode = 0 /\ outcome = "none"
  /\ Cardinality(DOMAIN loadTracking(runFile).scrapedUrls) = 3
  /\ Cardinality(DOMAIN loadTracking(file).scrapedUrls) = 2
  /\ Cardinality(DOMAIN data.lastScraped) = 2

\* the file and the store are those ResumeSpec starts from
AfterMenopauseRun ==
  /\ pc = "idle" /\ outcome = "success" /\ collection = "menopause"
  /\ store = "menopause_knowledge" :> ChunksOf(menopauseSources)
  /\ file = saveTracking(markAsScraped(EmptyTracking, "menopause_knowledge",
                                       menopauseSources, Len(ChunksOf(menopauseSources))))

\* list ends with tail
EndsWith(list, tail) ==
  /\ Len(tail) <= Len(list)
  /\ SubSeq(list, Len(list) - Len(tail) + 1, Len(list)) = tail

\* the call under way, or the last one made, is the first call for the
\* collection since a store call after the first batch failed, and it is not
\* forced
FollowingRun ==
  /\ failure.retry = "now" /\ failure.collection = collection
  /\ onlyNew /\ pc /= "check"

\* the store call of a batch after the first has just failed
LaterBatchFailed ==
  /\ outcome = "storeerror" /\ Len(storeCalls) > 1
  /\ failure.retry = "no" /\ failure.collection = collection

\* the batches before the failed one are in the store and the tracker is as
\* it was
PartialBatchesStay ==
  LaterBatchFailed =>
    /\ failure.stored = StoredBy(storeCalls) /\ failure.stored /= <<>>
    /\ EndsWith(store[collectionName], failure.stored)
    /\ TrackerUntouched /\ ExitedWithOne

FetchedChunks ==
  Concat([i \in DOMAIN fetched |-> scrapeURL(fetched[i].url, fetched[i].loaded)])

\* the fingerprints of the chunks of list
Fingerprints(list) == {Fingerprint(list[i]) : i \in DOMAIN list}

\* C32: the list a call hands to the store loop holds only chunks that passed
\* validation, no two with the same fingerprint, and exactly one, itself a
\* valid scraped chunk, of every fingerprint that a valid scraped chunk has
\* (a rejected chunk does not stand in for a valid one); the chunks the store
\* calls wrote are the beginning of that list, and all of it when the call
\* succeeded.
C32_ValidThenDistinct ==
  /\ pc = "store" /\ storeCalls = <<>> =>
       LET valid == SelectSeq(FetchedChunks, IsValidDoc)
       IN  /\ \A i \in DOMAIN allDocs :
                /\ validateContent(Document(allDocs[i])).score >= 50
                /\ Includes(valid, allDocs[i])
           /\ Cardinality(Fingerprints(allDocs)) = Len(allDocs)
           /\ Fingerprints(allDocs) = Fingerprints(valid)
  /\ Validated =>
       LET stored == StoredBy(storeCalls)
       IN  /\ Len(stored) <= Len(allDocs)
           /\ stored = SubSeq(allDocs, 1, Len(stored))
           /\ outcome = "success" => stored = allDocs

\* a call stored the second chunk of a page whose first chunk, a cookie banner
\* that was rejected, has the same first 200 characters
C32_Witness ==
  /\ outcome = "success" /\ collection = "pcos"
  /\ Includes(FetchedChunks, <<"p1", 1>>)
  /\ Fingerprint(<<"p1", 1>>) = Fingerprint(<<"p1", 2>>)
  /\ ~validateContent(Document(<<"p1", 1>>)).isValid
  /\ Includes(StoredBy(storeCalls), <<"p1", 2>>)
  /\ ~Includes(StoredBy(storeCalls), <<"p1", 1>>)

(***************************************************************************)
(* The sources of a response and the labels of the prompt.                 *)
(***************************************************************************)
\* C33 as stated: in the response to a grounded answer the i-th source is the
\* chunk the prompt labelled [Source i], and every label of the prompt has its
\* source in the response.
C33_Original ==
  \A r \in Grounded :
    /\ \A i \in DOMAIN req[r].sources :
         /\ i \in DOMAIN req[r].context
         /\ req[r].sources[i].content = req[r].context[i].pageContent
    /\ \A i \in DOMAIN req[r].context : i \in DOMAIN req[r].sources

(***************************************************************************)
(* Initialization and connections under overlapping requests.              *)
(***************************************************************************)
\* request r gets the successful return of its connectToExisting in this step
InitCompletes(r) ==
  /\ req[r].pc = "init"
  /\ req'[r].pc /= "init"
  /\ req'[r].error /= "connect"

\* C34 as stated: connectToExisting returns successfully at most once, that
\* is never once isInitialized is true, and once isInitialized is true a step
\* changes the active collection only to the collection that a valid request
\* of the step passed to switchCollection.
C34_Original ==
  [][isInitialized =>
       /\ \A r \in Requests : ~InitCompletes(r)
       /\ currentCollection' /= currentCollection =>
            \E r \in Requests :
              /\ req[r].pc \in {"new", "init", "connect"}
              /\ req'[r].pc /= req[r].pc
              /\ req'[r].valid
              /\ req'[r].collection = currentCollection']_vars

\* the requests whose switchCollection awaits fromExistingCollection for
\* the collection target
Connecting(target) ==
  {r \in Requests : req[r].pc = "connect" /\ req[r].collection = target}

\* C35 as stated: no two switchCollection calls await fromExistingCollection
\* for the same collection at the same time, and none awaits it for a
\* collection whose connection is in the cache.
C35_Original ==
  \A target \in CollectionTypes :
    /\ Cardinality(Connecting(target)) <= 1
    /\ target \in DOMAIN vectorStoreCache => Connecting(target) = {}

(***************************************************************************)
(* Runs whose existence check did not find the collection.                 *)
(***************************************************************************)
\* C36: a call without force whose checkCollectionExists answered false, the
\* collection missing or getCollections having thrown, does not return as
\* "already scraped" and fetches all configured sources of the collection in
\* configured order, whatever scrapedUrls holds.
C36_NoCollectionFetchesAll ==
  onlyNew /\ ~collectionExists =>
    /\ outcome /= "already"
    /\ pc \in {"scrape", "validate", "store", "mark"} =>
         LET all == sourcesOf(collection, configured)
         IN  /\ sourcesToScrape = all
             /\ FetchedUrls = IF pc = "scrape" THEN SubSeq(SourceUrls(all), 1, si - 1)
                              ELSE SourceUrls(all)

\* getCollections threw for a collection that exists and whose sources are
\* all tracked, and the call has fetched them again
C36_Witness ==
  /\ pc = "validate" /\ onlyNew /\ ~collectionExists
  /\ collectionName \in DOMAIN store
  /\ fetched /= <<>>
  /\ Range(FetchedUrls) \subseteq UrlsIn(data.scrapedUrls, collectionName)

(***************************************************************************)
(* The calls of a process started with 'all'.                              *)
(***************************************************************************)
\* the ways a scrapeSources call fails
Failures == {"nosources", "empty", "storeerror"}

\* the call under way and the calls still to make, of a process started
\* with 'all'
AllModeCalls ==
  {SubSeq(callsOf("all"), i, Len(callsOf("all"))) : i \in 1..Len(callsOf("all"))}

\* the URLs the tracking file f holds for collection c
FileUrls(f, c) == UrlsIn(loadTracking(f).scrapedUrls, c)

\* C37: a process with several calls makes them in the order menopause,
\* breast_cancer, pcos: the call under way stays the same until it has
\* returned, and the first call queued begins when it has; a call that
\* returns as "already scraped" leaves the queue to be processed; a call that
\* fails ends the process with status 1 without touching the tracking file;
\* and no step of a running process takes a URL out of the tracking file.
C37_AllInOrder ==
  [][/\ pc' /= "idle" /\ queue' /= <<>> => <<collection'>> \o queue' \in AllModeCalls
     /\ pc \notin {"idle", "returned"} =>
          /\ collection' = collection
          /\ queue' = queue \/ (pc' = "idle" /\ queue' = <<>>)
     /\ pc = "returned" =>
          /\ outcome \in {"already", "success"}
          /\ pc' = "check" /\ collection' = Head(queue) /\ queue' = Tail(queue)
     /\ pc /= "idle" /\ outcome' = "already" /\ queue /= <<>> =>
          pc' = "returned" /\ queue' = queue
     /\ pc /= "idle" /\ outcome' \in Failures =>
          pc' = "idle" /\ exitCode' = 1 /\ file' = file
     /\ pc /= "idle" =>
          \A c \in DOMAIN loadTracking(file).scrapedUrls :
            FileUrls(file, c) \subseteq FileUrls(file', c)]_vars

\* a process stored and tracked menopause, then failed in its breast_cancer
\* call and ended with status 1 before any pcos call
C37_Witness ==
  /\ pc = "idle" /\ exitCode = 1
  /\ collection = "breast_cancer" /\ outcome \in Failures
  /\ FileUrls(runFile, "menopause_knowledge") = {}
  /\ FileUrls(file, "menopause_knowledge") /= {}
  /\ "pcos_knowledge" \notin DOMAIN store

(***************************************************************************)
(* The ways a scrapeSources call ends.                                     *)
(***************************************************************************)
\* a scrapeSources call is under way
Running == pc \in {"check", "scrape", "validate", "store", "mark"}

\* the last scrapeSources call of the process is over
Ended == pc \in {"idle", "returned"} /\ outcome /= "none"

\* the call returned without a fetch, a store call or a change of the tracker
EndedAlreadyScraped ==
  /\ outcome = "already"
  /\ exitCode /= 1
  /\ fetched = <<>> /\ storeCalls = <<>>
  /\ TrackerUntouched

\* the call ended the process with status 1 and left the tracker alone
EndedInFailure ==
  /\ outcome \in Failures
  /\ ExitedWithOne
  /\ TrackerUntouched

\* the call stored every batch and then updated the tracker once
EndedInSuccess ==
  /\ outcome = "success"
  /\ exitCode /= 1
  /\ storeCalls /= <<>> /\ FailedStoreCalls = {}
  /\ StoredBy(storeCalls) = allDocs
  /\ Len(marked) = 1
  /\ file = saveTracking(data)

\* C38: when every external call returns or fails, a scrapeSources call that
\* is under way comes to its end, and a call that is over has ended in exactly
\* one of three ways: already scraped, failure, success.
C38_EndsInOneOutcome ==
  /\ Running ~> Ended
  /\ [](Ended =>
          Cardinality({w \in {"already", "failure", "success"} :
                         \/ w = "already" /\ EndedAlreadyScraped
                         \/ w = "failure" /\ EndedInFailure
                         \/ w = "success" /\ EndedInSuccess}) = 1)

\* a call that fetched two pages and stored their chunks in two batches has
\* ended in success
C38_Witness ==
  /\ Ended /\ EndedInSuccess
  /\ Len(fetched) = 2
  /\ Len(storeCalls) = 2

(***************************************************************************)
(* The returns of RateLimiter.throttle.                                    *)
(***************************************************************************)
\* the returns for domain, in their order
ReturnsFor(domain) ==
  LET ForDomain(r) == r.domain = domain
  IN  SelectSeq(limiter.returns, ForDomain)

\* C39 as stated: of two returns of throttle for a domain that follow each
\* other, the second comes at least the minDelayMs of its call after the
\* first.
C39_Original ==
  \A domain \in ThrottleDomains :
    LET returns == ReturnsFor(domain)
    IN  \A i \in 2..Len(returns) : returns[i].at - returns[i - 1].at >= returns[i].minDelayMs
====
